---- MODULE Spec2Model ----
(***************************************************************************)
(* Master/worker execution protocol generated by CGOpenMPRuntimeNVPTX for  *)
(* OpenMP target regions on SIMT hardware.                                 *)
(*                                                                         *)
(*  SpecArith : the thread-id arithmetic (getThreadLimit,                  *)
(*              getMasterThreadID, getTeamThreadId) on 32-bit values.      *)
(*  Spec      : one kernel launch of one block: kernel initializer,        *)
(*              worker loop, Level0 dispatch, entry footer.                *)
(*  FairSpec  : Spec with weak fairness (every lane keeps executing).      *)
(*  SpecLevel : one lane running through nested parallel/simd regions:     *)
(*              runtime ParallelismLevel counter and the level dispatch    *)
(*              emitted by emitParallelismLevelCode.                       *)
(*  SpecDrain : the lanes of one group draining their requests at a        *)
(*              nested (Level1) parallel or simd construct.                *)
(*  SpecShare : data sharing of one enclosing context: the planner         *)
(*              (createDataSharingInfo), the share helper and the          *)
(*              wrappers of the context's regions.                         *)
(*  SpecWalk  : the work-list walk of createDataSharingInfo over the body  *)
(*              of a context, collecting its parallel/simd regions.        *)
(*  SpecInvoke: one lane running a finalized function that has data        *)
(*              sharing: kernel initializer, share helper, closing call.   *)
(*  SpecAccess: one lane of a block of real size, its accesses to the      *)
(*              parallelism-level array and the work-function cell.        *)
(*  SpecFinal : emitRegistrationFunction rewriting one function of the     *)
(*              module, and one lane running the rewritten function.       *)
(*  SpecRegister: the parallel/simd directives of one enclosing context    *)
(*              registered and emitted one after another, in any order.    *)
(*  SpecGen   : target regions and device functions of one module          *)
(*              generated in any order: the member Work and the match      *)
(*              sets of the worker loops.                                  *)
(*  SpecNest  : one lane running through regions and called functions of   *)
(*              a module: the static nesting counter, the level dispatch   *)
(*              and the calls each construct makes.                        *)
(*  SpecMask  : the active lanes of one warp computing                     *)
(*              warp_active_thread_id and initializing the root slot.      *)
(*  SpecSchedule : loop directives asked for a coalesced schedule and      *)
(*              for a barrier.                                             *)
(*  SpecToolChains : one Compilation: device toolchains added and          *)
(*              iterated by offload kind.                                  *)
(***************************************************************************)
EXTENDS Integers, Naturals, Sequences, FiniteSets, TLC

VARIABLES
  \* ---- SpecArith
  aN,        \* nvvm.read.ptx.sreg.ntid.x : threads per block
  aW,        \* nvvm.read.ptx.sreg.warpsize
  aT,        \* nvvm.read.ptx.sreg.tid.x of the lane looked at
  aPc,       \* which values have been computed
  aLimit,    \* result of getThreadLimit
  aMaster,   \* result of getMasterThreadID
  aTeam,     \* result of getTeamThreadId
  aRole,     \* block of the kernel initializer the lane is sent to
  \* ---- Spec (one block, one kernel launch)
  NumThreads,   \* threads of the block
  pc,           \* per lane: basic block / call the lane is at
  role,         \* per lane: outcome of the kernel initializer
  barriers,     \* per lane: barriers crossed so far
  WorkFn,       \* the runtime's work-function cell (0 is the null pointer)
  work_fn,      \* per worker: the alloca "work_fn" filled by kernel_parallel
  exec_status,  \* per worker: the alloca "exec_status"
  invoked,      \* per worker: wrapper functions called, in order
  ended,        \* per worker: calls of kernel_end_parallel
  reads,        \* per worker: calls of kernel_parallel that returned non-null
  activated,    \* per worker: those of them that returned the active flag
  dispatched,   \* calls of kernel_prepare_parallel by the master
  completed,    \* dispatches whose second barrier the master has crossed
  rootInit,     \* lanes that initialized the master pool, in order
  \* ---- SpecLevel (one lane)
  lN,               \* threads of the lane's block
  lTid,             \* the lane's thread id
  IsOrphaned,       \* CGOpenMPRuntimeNVPTX::IsOrphaned while the code is generated
  ParallelismLevel, \* __openmp_nvptx_parallelism_levels[tid]
  lStack,           \* outlined region bodies the lane is inside, innermost first
  lPc,              \* what the lane executes next
  lCall,            \* the construct whose wrapper / outlined function is being called
  lLast,            \* the last level dispatch the lane ran
  \* ---- SpecDrain (the lanes of one group at a nested construct)
  cSimd,        \* the construct is a simd (emitSimdCall), else a parallel
  cMask,        \* lanes of the group that arrived with a request
  cNumThreads,  \* lanes the runtime lets execute each request
  cPc,          \* per lane: block of the do-while loop the lane is at
  IsFinal,      \* per lane: the alloca "is_final"
  WorkSource,   \* per lane: the alloca "work_source"
  cTrace,       \* per lane: runtime and wrapper calls made, in order
  \* ---- SpecShare (one enclosing context)
  sContext,     \* kind of declaration CGF.CurCodeDecl is
  sDecls,       \* per captured identity: how the regions capture it
  sRegions,     \* the context's parallel/simd regions: capture lists, in order
  sLevel,       \* parallelism level the share helper and the wrappers run at
  sPc,          \* how far code generation of the context has come
  Info,         \* DataSharingInfoMap[Context]
  sFrame,       \* contents of the data-sharing frame the share helper filled
  sNewAddr,     \* per descriptor: address the share helper handed back
  sArgs,        \* the last wrapper call: region, source lane, arguments passed on
  \* ---- SpecWalk (the planner's walk over one body)
  wBody,          \* the statement tree of the context's body
  WorkList,       \* statements still to visit, as paths into wBody
  wCapturedStmts, \* regions recorded so far, as paths into wBody
  \* ---- SpecInvoke (one lane, one invocation of a finalized function)
  fIsEntryPoint,  \* DataSharingFunctionInfo::IsEntryPoint
  fCaptures,      \* sharing types of the context's descriptors, in order
  fCode,          \* level dispatch emitted into the share helper
  fRole,          \* master, worker, or a lane in excess of the thread limit
  fLevel,         \* the lane's entry of the parallelism-level array
  fLane,          \* the lane's id within its warp
  fPc,            \* where the lane is in the function
  fRan,           \* blocks of the level dispatch the helper executed
  fCalls,         \* data-sharing runtime calls the lane made, in order
  fSaved,         \* whether the saved slot/stack/frame/threads cells are filled
  fNewAddr,       \* per descriptor: the address stored through its .addr argument
  \* ---- SpecAccess (one lane, its accesses to block-shared state)
  xN,         \* threads of the lane's block
  xTid,       \* the lane's thread id
  xOrphaned,  \* CGOpenMPRuntimeNVPTX::IsOrphaned while the code is generated
  xLevel,     \* value the lane's level counter holds
  xStack,     \* regions the lane is inside, innermost first: whether simd
  xPc,        \* what the lane executes next
  xSimd,      \* the outlined function being called is a simd region's
  xTouched,   \* memory the lane's level-counter accesses addressed
  xWriters,   \* lanes that wrote the work-function cell
  \* ---- SpecFinal (one function of DataSharingFunctionInfoMap)
  hEntry,       \* DataSharingFunctionInfo::IsEntryPoint
  hVars,        \* the captured variables, in the order of DSI.CapturesValues
  hFn,          \* the function's instructions, in layout order
  hPc,          \* generated, then finalized and run by a lane
  hRole,        \* the lane running the function: master or not
  hIp,          \* index of the instruction the lane executes next
  hHelperCalls, \* calls of the share helper the lane has made
  hSharedUses,  \* executed instructions that use a replaced address
  hEarly,       \* one of them was executed with no helper call before it
  \* ---- SpecRegister (one enclosing context and its function)
  rContext,     \* kind of CGF.CurCodeDecl
  rDecls,       \* how each local variable is addressed
  rRegions,     \* captures of the parallel/simd directives of the body
  rMap,         \* DataSharingInfoMap[Context]; NoInfo while absent
  rFirst,       \* the entry as the first registration left it
  rRegistered,  \* directives passed to registerParallelContext
  rCalled,      \* directives whose call has been emitted
  rInitializationFunction, \* DataSharingFunctionInfo::InitializationFunction
  rHelpers,     \* share helpers created for the function
  rPc,          \* generating code, or stopped in the planner
  \* ---- SpecGen (one module)
  gUnits,       \* the target regions and device functions of the module
  gCalls,       \* functions the master of a target region calls
  gEmitted,     \* units generated so far, in order
  gWork,        \* the member Work
  gMatch,       \* per generated kernel, the work_match tests of its worker loop
  \* ---- SpecNest (one lane of one kernel launch)
  nN,           \* threads per block
  nTid,         \* thread id of the lane
  nLevel,       \* the lane's entry of __openmp_nvptx_parallelism_levels
  nStatic,      \* ParallelNestingLevel while the code the lane runs was generated
  nStack,       \* region bodies and functions the lane is inside, innermost first
  nPc,          \* user code, a wrapper, or the entry of an outlined function
  nPending,     \* the call of a wrapper or outlined function under way
  nTrace,       \* calls of the construct the lane met or completed last
  nLast,        \* the level dispatch the lane ran last
  \* ---- SpecMask (one warp)
  mMask,        \* __kmpc_warp_active_thread_mask: lanes of the warp that are active
  mPc,          \* per active lane: position in initializeDataSharing
  mActiveID,    \* per active lane: the value warp_active_thread_id
  mRootInit,    \* lanes that ran the block shared_data_init, in order
  \* ---- SpecSchedule (the loop directives of one function)
  qLoop,        \* the loop directive being generated: its clauses
  qCoalesced,   \* result of generateCoalescedSchedule for it (<< >>: not asked)
  qBarrier,     \* result of requiresBarrier for it (<< >>: not asked)
  qDone,        \* loop directives generated before it
  \* ---- SpecToolChains (one Compilation)
  OrderedOffloadingToolchains, \* Compilation::OrderedOffloadingToolchains
  OffloadHostKinds,            \* Compilation::OffloadHostKinds, as the set of its bits
  tKind,        \* template argument Kind of the query in progress
  tI,           \* position of the query's iterator (Len + 1 is end())
  tVisited,     \* toolchains the range-based loop has visited
  tSingle,      \* result of getSingleOffloadDeviceToolChain (<< >>: not asked)
  tPc           \* what the client of the Compilation is doing


avars == <<aN, aW, aT, aPc, aLimit, aMaster, aTeam, aRole>>

kvars == <<NumThreads, pc, role, barriers, WorkFn, work_fn, exec_status,
           invoked, ended, reads, activated, dispatched, completed, rootInit>>

lvars == <<lN, lTid, IsOrphaned, ParallelismLevel, lStack, lPc, lCall, lLast>>

cvars == <<cSimd, cMask, cNumThreads, cPc, IsFinal, WorkSource, cTrace>>

svars == <<sContext, sDecls, sRegions, sLevel, sPc, Info, sFrame, sNewAddr,
           sArgs>>

wvars == <<wBody, WorkList, wCapturedStmts>>

fvars == <<fIsEntryPoint, fCaptures, fCode, fRole, fLevel, fLane, fPc, fRan, fCalls, fSaved, fNewAddr>>

xvars == <<xN, xTid, xOrphaned, xLevel, xStack, xPc, xSimd, xTouched, xWriters>>

hvars == <<hEntry, hVars, hFn, hPc, hRole, hIp, hHelperCalls, hSharedUses, hEarly>>

rvars == <<rContext, rDecls, rRegions, rMap, rFirst, rRegistered, rCalled, rInitializationFunction, rHelpers, rPc>>

gvars == <<gUnits, gCalls, gEmitted, gWork, gMatch>>

nvars == <<nN, nTid, nLevel, nStatic, nStack, nPc, nPending, nTrace, nLast>>

mvars == <<mMask, mPc, mActiveID, mRootInit>>

qvars == <<qLoop, qCoalesced, qBarrier, qDone>>

tvars == <<OrderedOffloadingToolchains, OffloadHostKinds, tKind, tI, tVisited, tSingle, tPc>>

vars == <<avars, kvars, lvars, cvars, svars, wvars, fvars, xvars, hvars, rvars, gvars, nvars, mvars, qvars, tvars>>

\* the variables each specification leaves alone
outsideArith == <<kvars, lvars, cvars, svars, wvars, fvars, xvars, hvars, rvars, gvars, nvars, mvars, qvars, tvars>>
outsideKernel == <<avars, lvars, cvars, svars, wvars, fvars, xvars, hvars, rvars, gvars, nvars, mvars, qvars, tvars>>
outsideLevel == <<avars, kvars, cvars, svars, wvars, fvars, xvars, hvars, rvars, gvars, nvars, mvars, qvars, tvars>>
outsideDrain == <<avars, kvars, lvars, svars, wvars, fvars, xvars, hvars, rvars, gvars, nvars, mvars, qvars, tvars>>
outsideShare == <<avars, kvars, lvars, cvars, wvars, fvars, xvars, hvars, rvars, gvars, nvars, mvars, qvars, tvars>>
outsideWalk == <<avars, kvars, lvars, cvars, svars, fvars, xvars, hvars, rvars, gvars, nvars, mvars, qvars, tvars>>
outsideInvoke == <<avars, kvars, lvars, cvars, svars, wvars, xvars, hvars, rvars, gvars, nvars, mvars, qvars, tvars>>
outsideAccess == <<avars, kvars, lvars, cvars, svars, wvars, fvars, hvars, rvars, gvars, nvars, mvars, qvars, tvars>>
outsideFinal == <<avars, kvars, lvars, cvars, svars, wvars, fvars, xvars, rvars, gvars, nvars, mvars, qvars, tvars>>
outsideRegister == <<avars, kvars, lvars, cvars, svars, wvars, fvars, xvars, hvars, gvars, nvars, mvars, qvars, tvars>>
outsideGen == <<avars, kvars, lvars, cvars, svars, wvars, fvars, xvars, hvars, rvars, nvars, mvars, qvars, tvars>>
outsideNest == <<avars, kvars, lvars, cvars, svars, wvars, fvars, xvars, hvars, rvars, gvars, mvars, qvars, tvars>>
outsideMask == <<avars, kvars, lvars, cvars, svars, wvars, fvars, xvars, hvars, rvars, gvars, nvars, qvars, tvars>>
outsideSchedule == <<avars, kvars, lvars, cvars, svars, wvars, fvars, xvars, hvars, rvars, gvars, nvars, mvars, tvars>>
outsideToolChains == <<avars, kvars, lvars, cvars, svars, wvars, fvars, xvars, hvars, rvars, gvars, nvars, mvars, qvars>>

(***************************************************************************)
(* Bounds                                                                  *)
(***************************************************************************)
\* block sizes 1..MaxBlock are enumerated in SpecArith
MaxBlock == 70
\* largest block of a kernel launch in Spec
MaxThreads == 5
\* most Level0 parallel regions one kernel dispatches in Spec
MaxRegions == 2
\* a lane enters no further region once its counter has reached MaxLevel
MaxLevel == 3
\* lanes of the group looked at in SpecDrain
MaxGroup == 3

(***************************************************************************)
(* 32-bit integer arithmetic of the emitted IR.  An i32 is kept as two     *)
(* 16-bit halves, so that wrap-around is exact.                            *)
(***************************************************************************)
\* width of the i32 values Builder.getInt32 makes
Int32Width == 32

HalfWidth == Int32Width \div 2

RECURSIVE Pow2(_)
Pow2(n) == IF n = 0 THEN 1 ELSE 2 * Pow2(n - 1)

HalfModulus == Pow2(HalfWidth)

\* Builder.getInt32(n), 0 <= n < 2^31
getInt32(n) == [hi |-> n \div HalfModulus, lo |-> n % HalfModulus]

\* the i32 values below 2^31, as naturals
IsSmall(x) == x.hi < HalfModulus \div 2
ValueOf(x) == x.hi * HalfModulus + x.lo

\* Builder.CreateSub on i32 (no nuw/nsw flag: wraps modulo 2^32)
CreateSub(a, b) ==
  LET borrow == IF a.lo < b.lo THEN 1 ELSE 0
  IN [hi |-> (a.hi - b.hi - borrow + 2 * HalfModulus) % HalfModulus,
      lo |-> (a.lo - b.lo + HalfModulus) % HalfModulus]

\* Builder.CreateNot on i32
CreateNot(a) == [hi |-> HalfModulus - 1 - a.hi, lo |-> HalfModulus - 1 - a.lo]

RECURSIVE AndBits(_, _, _)
AndBits(a, b, n) ==
  IF n = 0 THEN 0
  ELSE (IF a % 2 = 1 /\ b % 2 = 1 THEN 1 ELSE 0)
       + 2 * AndBits(a \div 2, b \div 2, n - 1)

\* Builder.CreateAnd on i32
CreateAnd(a, b) ==
  [hi |-> AndBits(a.hi, b.hi, HalfWidth), lo |-> AndBits(a.lo, b.lo, HalfWidth)]

\* Builder.CreateICmpULT on i32
CreateICmpULT(a, b) == a.hi < b.hi \/ (a.hi = b.hi /\ a.lo < b.lo)

(***************************************************************************)
(* Thread-id arithmetic                                                    *)
(***************************************************************************)
\* getThreadLimit: ntid - warpsize
getThreadLimit(NumThr, WarpSize) == CreateSub(NumThr, WarpSize)

getMasterThreadID_NoDecrement(NumThr, WarpSize) ==
  CreateAnd(NumThr, CreateNot(CreateSub(WarpSize, getInt32(1))))

\* getMasterThreadID: (ntid - 1) & ~(warpsize - 1)
getMasterThreadID(NumThr, WarpSize) ==
  CreateAnd(CreateSub(NumThr, getInt32(1)),
            CreateNot(CreateSub(WarpSize, getInt32(1))))

\* getTeamThreadId: tid & (master_tid - 1)
getTeamThreadId(ThreadID, NumThr, WarpSize) ==
  CreateAnd(ThreadID,
            CreateSub(getMasterThreadID(NumThr, WarpSize), getInt32(1)))

\* the values getTeamThreadId can yield: master_tid - 1 is a CreateNUWSub,
\* which is poison when master_tid is 0, and so is the and of it
TeamThreadIdValues(ThreadID, NumThr, WarpSize) ==
  IF getMasterThreadID(NumThr, WarpSize) = getInt32(0)
  THEN {getInt32(v) : v \in 0..ValueOf(NumThr)}
          \cup {getTeamThreadId(ThreadID, NumThr, WarpSize)}
  ELSE {getTeamThreadId(ThreadID, NumThr, WarpSize)}

RoleByMasterOnly(ThreadID, NumThr, WarpSize) ==
  IF CreateICmpULT(ThreadID, getMasterThreadID(NumThr, WarpSize))
  THEN "worker"
  ELSE IF ThreadID = getMasterThreadID(NumThr, WarpSize)
       THEN "master" ELSE "parked"

\* createKernelInitializerFunction: the block (.worker, .master, .exit) the
\* lane is sent to
KernelInitializerRole(ThreadID, NumThr, WarpSize) ==
  IF CreateICmpULT(ThreadID, getThreadLimit(NumThr, WarpSize))
  THEN "worker"
  ELSE IF ThreadID = getMasterThreadID(NumThr, WarpSize)
       THEN "master" ELSE "parked"

\* warp sizes looked at: powers of two (line 580: "We assume that the warp
\* size is a power of 2")
WarpSizes == {2, 4, 8, 16, 32}

\* block sizes looked at; 128 and 1024 are the documented examples
BlockSizes == (1..MaxBlock) \cup {128, 1024}

Unset == [hi |-> -1, lo |-> -1]

\* SpecArith does not run the kernel
KIdle ==
  /\ NumThreads = 0
  /\ pc = << >>
  /\ role = << >>
  /\ barriers = << >>
  /\ WorkFn = 0
  /\ work_fn = << >>
  /\ exec_status = << >>
  /\ invoked = << >>
  /\ ended = << >>
  /\ reads = << >>
  /\ activated = << >>
  /\ dispatched = 0
  /\ completed = 0
  /\ rootInit = << >>

NoCall == [simd |-> FALSE, cancel |-> FALSE]
NoDispatch == [site |-> "none", blocks |-> {}, checks |-> {},
               nesting |-> 0, executed |-> << >>,
               master |-> FALSE, level |-> 0]

\* DataSharingInfoMap has no entry for the context
NoInfo ==
  [inMap |-> FALSE, CapturesValues |-> << >>, MasterRecordType |-> << >>,
   WorkerWarpRecordType |-> << >>]

\* no wrapper has been called
NoArgs == [region |-> 0, source |-> 0, args |-> << >>]

\* no context is being planned
SIdle ==
  /\ sContext = "none"
  /\ sDecls = << >>
  /\ sRegions = << >>
  /\ sLevel = 0
  /\ sPc = "idle"
  /\ Info = NoInfo
  /\ sFrame = << >>
  /\ sNewAddr = << >>
  /\ sArgs = NoArgs

\* no group is draining requests
CIdle ==
  /\ cSimd = FALSE
  /\ cMask = {}
  /\ cNumThreads = 0
  /\ cPc = << >>
  /\ IsFinal = << >>
  /\ WorkSource = << >>
  /\ cTrace = << >>

\* neither SpecArith nor Spec runs the single-lane walk
LIdle ==
  /\ lN = 0 /\ lTid = 0
  /\ IsOrphaned = FALSE
  /\ ParallelismLevel = 0
  /\ lStack = << >>
  /\ lPc = "idle"
  /\ lCall = NoCall
  /\ lLast = NoDispatch

\* no body is being walked
NoStmt == [kind |-> "none", kids |-> << >>]

WIdle ==
  /\ wBody = NoStmt
  /\ WorkList = << >>
  /\ wCapturedStmts = << >>

\* no level dispatch emitted
NoCode ==
  [Level0 |-> FALSE, Check0 |-> FALSE, Level1 |-> FALSE, Check1 |-> FALSE,
   Sequential |-> FALSE, CheckSeq |-> FALSE]

\* no function is being run
FIdle ==
  /\ fIsEntryPoint = FALSE
  /\ fCaptures = << >>
  /\ fCode = NoCode
  /\ fRole = "none"
  /\ fLevel = 0
  /\ fLane = 0
  /\ fPc = "idle"
  /\ fRan = << >>
  /\ fCalls = << >>
  /\ fSaved = FALSE
  /\ fNewAddr = << >>

\* no lane is followed through its accesses
XIdle ==
  /\ xN = 0
  /\ xTid = 0
  /\ xOrphaned = FALSE
  /\ xLevel = 0
  /\ xStack = << >>
  /\ xPc = "idle"
  /\ xSimd = FALSE
  /\ xTouched = {}
  /\ xWriters = {}

\* no function is being finalized
HIdle ==
  /\ hEntry = FALSE
  /\ hVars = << >>
  /\ hFn = << >>
  /\ hPc = "idle"
  /\ hRole = "none"
  /\ hIp = 0
  /\ hHelperCalls = 0
  /\ hSharedUses = 0
  /\ hEarly = FALSE

\* no context is being registered
RIdle ==
  /\ rContext = "none"
  /\ rDecls = << >>
  /\ rRegions = << >>
  /\ rMap = NoInfo
  /\ rFirst = NoInfo
  /\ rRegistered = {}
  /\ rCalled = {}
  /\ rInitializationFunction = "none"
  /\ rHelpers = 0
  /\ rPc = "idle"

\* no module is being generated
GIdle ==
  /\ gUnits = << >>
  /\ gCalls = << >>
  /\ gEmitted = << >>
  /\ gWork = << >>
  /\ gMatch = << >>

\* no lane is looked at in SpecNest
NIdle ==
  /\ nN = 0
  /\ nTid = 0
  /\ nLevel = 0
  /\ nStatic = 0
  /\ nStack = << >>
  /\ nPc = "idle"
  /\ nPending = << >>
  /\ nTrace = << >>
  /\ nLast = NoDispatch

\* no warp is initializing its root slot
MIdle ==
  /\ mMask = {}
  /\ mPc = << >>
  /\ mActiveID = << >>
  /\ mRootInit = << >>

\* no loop directive is being generated
QIdle ==
  /\ qLoop = << >>
  /\ qCoalesced = << >>
  /\ qBarrier = << >>
  /\ qDone = 0

\* no Compilation is in use
TIdle ==
  /\ OrderedOffloadingToolchains = << >>
  /\ OffloadHostKinds = {}
  /\ tKind = "none"
  /\ tI = 0
  /\ tVisited = << >>
  /\ tSingle = << >>
  /\ tPc = "none"

AInit ==
  /\ KIdle /\ LIdle /\ CIdle /\ SIdle /\ WIdle /\ FIdle /\ XIdle /\ HIdle /\ RIdle /\ GIdle /\ NIdle /\ MIdle /\ QIdle /\ TIdle
  /\ aN \in BlockSizes
  /\ aW \in WarpSizes
  /\ aT \in 0..(aN - 1)
  /\ aPc = "start"
  /\ aLimit = Unset
  /\ aMaster = Unset
  /\ aTeam = Unset
  /\ aRole = "none"

AGetThreadLimit ==
  /\ aPc = "start"
  /\ aLimit' = getThreadLimit(getInt32(aN), getInt32(aW))
  /\ aPc' = "limit"
  /\ UNCHANGED <<aN, aW, aT, aMaster, aTeam, aRole, outsideArith>>

AGetMasterThreadID ==
  /\ aPc = "limit"
  /\ aMaster' = getMasterThreadID(getInt32(aN), getInt32(aW))
  /\ aPc' = "master"
  /\ UNCHANGED <<aN, aW, aT, aLimit, aTeam, aRole, outsideArith>>

AGetTeamThreadId ==
  /\ aPc = "master"
  /\ aTeam' \in TeamThreadIdValues(getInt32(aT), getInt32(aN), getInt32(aW))
  /\ aPc' = "team"
  /\ UNCHANGED <<aN, aW, aT, aLimit, aMaster, aRole, outsideArith>>

AKernelInitializer ==
  /\ aPc = "team"
  /\ aRole' = KernelInitializerRole(getInt32(aT), getInt32(aN), getInt32(aW))
  /\ aPc' = "role"
  /\ UNCHANGED <<aN, aW, aT, aLimit, aMaster, aTeam, outsideArith>>

ANext ==
  \/ AGetThreadLimit
  \/ AGetMasterThreadID
  \/ AGetTeamThreadId
  \/ AKernelInitializer

SpecArith == AInit /\ [][ANext]_vars

(***************************************************************************)
(* One kernel launch of one block (Spec)                                   *)
(***************************************************************************)
\* Spec does not run the arithmetic walk
AIdle ==
  /\ aN = 0 /\ aW = 0 /\ aT = 0
  /\ aPc = "idle"
  /\ aLimit = Unset /\ aMaster = Unset /\ aTeam = Unset
  /\ aRole = "none"

\* enum DataSharingConstants: lanes a warp-record field has room for
DS_Max_Worker_Warp_Size == 32

\* enum DATA_SHARING_SIZES: bytes reserved for data in a master slot
DS_Slot_Size == 4
\* bytes reserved in the slot of a worker warp
DS_Worker_Warp_Slot_Size == DS_Max_Worker_Warp_Size * DS_Slot_Size

\* a runtime call of the lane
SharingCall(op, size, default, saved, entry) ==
  [op |-> op, size |-> size, default |-> default, saved |-> saved,
   entry |-> entry]

initializeDataSharing_MasterPoolForAll(IsMaster, IsWarpActiveMaster) ==
  <<SharingCall("initialize", "master-pool", DS_Slot_Size, FALSE, FALSE)>>

\* initializeDataSharing: the runtime call a lane of the kernel initializer
\* makes for its pool
initializeDataSharing(IsMaster, IsWarpActiveMaster) ==
  IF IsMaster
    THEN <<SharingCall("initialize", "master-pool", DS_Slot_Size, FALSE, FALSE)>>
  ELSE IF IsWarpActiveMaster
    THEN <<SharingCall("initialize", "warp-pool", DS_Worker_Warp_Slot_Size,
                       FALSE, FALSE)>>
  ELSE << >>

\* lane-group size of the blocks launched in Spec
KernelWarpSize == 2

Lanes == 0..(NumThreads - 1)

\* wrapper functions that can be written to the work-function cell; pointers
\* are numbered from 1, 0 is the null pointer
Wrappers == {1, 2, 3}

\* the member Work at the time emitWorkerLoop runs: wrappers of the Level0
\* regions generated before the worker function (3 is pushed later, by a
\* function generated after the kernel)
Work == {1, 2}

\* blocks that end in syncCTAThreads
BarrierPcs == {"await", "barrier", "wake", "drain", "final"}

Masters == {t \in Lanes : role[t] = "master"}
Workers == {t \in Lanes : role[t] = "worker"}

\* The runtime starts thread_limit + warpSize threads (line 562), so a block
\* has at least one lane group.
Init ==
  /\ AIdle /\ LIdle /\ CIdle /\ SIdle /\ WIdle /\ FIdle /\ XIdle /\ HIdle /\ RIdle /\ GIdle /\ NIdle /\ MIdle /\ QIdle /\ TIdle
  /\ NumThreads \in KernelWarpSize..MaxThreads
  /\ pc = [t \in Lanes |-> "entry"]
  /\ role = [t \in Lanes |-> "none"]
  /\ barriers = [t \in Lanes |-> 0]
  \* shared memory is not initialized at launch
  /\ WorkFn \in {0} \cup Wrappers
  /\ work_fn = [t \in Lanes |-> 0]
  /\ exec_status = [t \in Lanes |-> FALSE]
  /\ invoked = [t \in Lanes |-> << >>]
  /\ ended = [t \in Lanes |-> 0]
  /\ reads = [t \in Lanes |-> 0]
  /\ activated = [t \in Lanes |-> 0]
  /\ dispatched = 0
  /\ completed = 0
  /\ rootInit = << >>

\* calls of initializeDataSharing in the blocks .worker and .master of the
\* kernel initializer that set up the master pool; which worker is its
\* warp's active master does not matter for them
MasterPoolInits(r) ==
  SelectSeq(IF r = "master" THEN initializeDataSharing(TRUE, FALSE)
            ELSE IF r = "worker"
              THEN initializeDataSharing(FALSE, TRUE)
                     \o initializeDataSharing(FALSE, FALSE)
            ELSE << >>,
            LAMBDA c : c.size = "master-pool")

\* InitializeEntryPoint + createKernelInitializerFunction: workers call the
\* worker function and then leave through the exit block, the master
\* continues in .master, all other lanes go to the exit block.
KernelInitializer(t) ==
  /\ pc[t] = "entry"
  /\ LET r == KernelInitializerRole(getInt32(t), getInt32(NumThreads),
                                    getInt32(KernelWarpSize))
     IN /\ role' = [role EXCEPT ![t] = r]
        /\ pc' = [pc EXCEPT ![t] = CASE r = "worker" -> "await"
                                     [] r = "master" -> "kernel_init"
                                     [] OTHER -> "exit"]
        /\ rootInit' = rootInit \o [i \in 1..Len(MasterPoolInits(r)) |-> t]
  /\ UNCHANGED <<outsideKernel, NumThreads, barriers, WorkFn, work_fn, exec_status,
                 invoked, ended, reads, activated, dispatched, completed>>

\* emitEntryHeader: __kmpc_kernel_init, then the sequential region
MasterKernelInit(t) ==
  /\ pc[t] = "kernel_init"
  /\ pc' = [pc EXCEPT ![t] = "sequential"]
  /\ UNCHANGED <<outsideKernel, NumThreads, rootInit, role, barriers, WorkFn, work_fn,
                 exec_status, invoked, ended, reads, activated, dispatched, completed>>

MasterPrepareParallel_NoWakeBarrier(t) ==
  /\ pc[t] = "sequential"
  /\ dispatched < MaxRegions
  /\ \E f \in Wrappers : WorkFn' = f
  /\ dispatched' = dispatched + 1
  /\ pc' = [pc EXCEPT ![t] = "drain"]
  /\ UNCHANGED <<outsideKernel, NumThreads, rootInit, role, barriers, work_fn, exec_status,
                 invoked, ended, reads, activated, completed>>

\* emitParallelCall::L0ParallelGen: __kmpc_kernel_prepare_parallel(WFn), then
\* the lane is at the first syncCTAThreads
MasterPrepareParallel(t) ==
  /\ pc[t] = "sequential"
  /\ dispatched < MaxRegions
  /\ \E f \in Wrappers : WorkFn' = f
  /\ dispatched' = dispatched + 1
  /\ pc' = [pc EXCEPT ![t] = "wake"]
  /\ UNCHANGED <<outsideKernel, NumThreads, rootInit, role, barriers, work_fn, exec_status,
                 invoked, ended, reads, activated, completed>>

MasterEntryFooter_NoBarrier(t) ==
  /\ pc[t] = "sequential"
  /\ WorkFn' = 0
  /\ pc' = [pc EXCEPT ![t] = "exit"]
  /\ UNCHANGED <<outsideKernel, NumThreads, rootInit, role, barriers, work_fn, exec_status,
                 invoked, ended, reads, activated, dispatched, completed>>

MasterEntryFooter_NoDeinit(t) ==
  /\ pc[t] = "sequential"
  /\ pc' = [pc EXCEPT ![t] = "final"]
  /\ UNCHANGED <<outsideKernel, NumThreads, rootInit, role, barriers, WorkFn, work_fn,
                 exec_status, invoked, ended, reads, activated, dispatched, completed>>

\* emitEntryFooter: __kmpc_kernel_deinit signals termination (null work
\* function), then the lane is at the terminating syncCTAThreads
MasterEntryFooter(t) ==
  /\ pc[t] = "sequential"
  /\ WorkFn' = 0
  /\ pc' = [pc EXCEPT ![t] = "final"]
  /\ UNCHANGED <<outsideKernel, NumThreads, rootInit, role, barriers, work_fn, exec_status,
                 invoked, ended, reads, activated, dispatched, completed>>

\* the block a lane continues in after its syncCTAThreads
AfterBarrier(p) ==
  CASE p = "await" -> "kernel_parallel"
    [] p = "barrier" -> "await"
    [] p = "wake" -> "drain"
    [] p = "drain" -> "sequential"
    [] p = "final" -> "exit"
    [] OTHER -> p

\* syncCTAThreads (nvvm.barrier0): completes when every lane of the block
\* that has not left the kernel is at a barrier
BarrierSync ==
  /\ \E t \in Lanes : pc[t] # "exit"
  /\ \A t \in Lanes : pc[t] # "exit" => pc[t] \in BarrierPcs
  /\ pc' = [t \in Lanes |-> AfterBarrier(pc[t])]
  /\ barriers' = [t \in Lanes |->
                    IF pc[t] \in BarrierPcs THEN barriers[t] + 1
                    ELSE barriers[t]]
  /\ completed' = IF \E t \in Lanes : pc[t] = "drain"
                  THEN completed + 1 ELSE completed
  /\ UNCHANGED <<outsideKernel, NumThreads, rootInit, role, WorkFn, work_fn, exec_status,
                 invoked, ended, reads, activated, dispatched>>

WorkerKernelParallel_BeforeBarrier(t) ==
  /\ pc[t] \in {"await", "kernel_parallel"}
  /\ \E active \in BOOLEAN :
       /\ work_fn' = [work_fn EXCEPT ![t] = WorkFn]
       /\ exec_status' = [exec_status EXCEPT ![t] = active]
       /\ reads' = [reads EXCEPT ![t] = IF WorkFn # 0 THEN @ + 1 ELSE @]
       /\ activated' = [activated EXCEPT ![t] =
                          IF WorkFn # 0 /\ active THEN @ + 1 ELSE @]
       /\ pc' = [pc EXCEPT ![t] = IF WorkFn = 0 THEN "exit"
                                  ELSE IF active THEN "execute"
                                  ELSE "barrier"]
  /\ UNCHANGED <<outsideKernel, NumThreads, rootInit, role, barriers, WorkFn, invoked, ended,
                 dispatched, completed>>

\* emitWorkerLoop, .await.work after the barrier and .select.workers:
\* __kmpc_kernel_parallel(&work_fn) fills work_fn and returns the active
\* flag; null work_fn leaves the loop, an inactive worker goes to the
\* closing barrier
WorkerKernelParallel(t) ==
  /\ pc[t] = "kernel_parallel"
  /\ \E active \in BOOLEAN :
       /\ work_fn' = [work_fn EXCEPT ![t] = WorkFn]
       /\ exec_status' = [exec_status EXCEPT ![t] = active]
       /\ reads' = [reads EXCEPT ![t] = IF WorkFn # 0 THEN @ + 1 ELSE @]
       /\ activated' = [activated EXCEPT ![t] =
                          IF WorkFn # 0 /\ active THEN @ + 1 ELSE @]
       /\ pc' = [pc EXCEPT ![t] = IF WorkFn = 0 THEN "exit"
                                  ELSE IF active THEN "execute"
                                  ELSE "barrier"]
  /\ UNCHANGED <<outsideKernel, NumThreads, rootInit, role, barriers, WorkFn, invoked, ended,
                 dispatched, completed>>

WorkerExecute_UnmatchedSkipsEnd(t) ==
  /\ pc[t] = "execute"
  /\ IF work_fn[t] \in Work
     THEN /\ invoked' = [invoked EXCEPT ![t] = Append(@, work_fn[t])]
          /\ pc' = [pc EXCEPT ![t] = "running"]
     ELSE /\ pc' = [pc EXCEPT ![t] = "barrier"]
          /\ UNCHANGED invoked
  /\ UNCHANGED <<outsideKernel, NumThreads, rootInit, role, barriers, WorkFn, work_fn,
                 exec_status, ended, reads, activated, dispatched, completed>>

\* emitWorkerLoop, .execute.parallel: linear match of work_fn against Work;
\* the match is called with the master's thread id, no match falls through
\* to .terminate.parallel
WorkerExecute(t) ==
  /\ pc[t] = "execute"
  /\ IF work_fn[t] \in Work
     THEN /\ invoked' = [invoked EXCEPT ![t] = Append(@, work_fn[t])]
          /\ pc' = [pc EXCEPT ![t] = "running"]
     ELSE /\ pc' = [pc EXCEPT ![t] = "terminate"]
          /\ UNCHANGED invoked
  /\ UNCHANGED <<outsideKernel, NumThreads, rootInit, role, barriers, WorkFn, work_fn,
                 exec_status, ended, reads, activated, dispatched, completed>>

WorkerReturn_ToAwait(t) ==
  /\ pc[t] = "running"
  /\ pc' = [pc EXCEPT ![t] = "await"]
  /\ UNCHANGED <<outsideKernel, NumThreads, rootInit, role, barriers, WorkFn, work_fn,
                 exec_status, invoked, ended, reads, activated, dispatched, completed>>

\* emitWorkerLoop, .execute.fn: the called wrapper returns, branch to
\* .terminate.parallel
WorkerReturn(t) ==
  /\ pc[t] = "running"
  /\ pc' = [pc EXCEPT ![t] = "terminate"]
  /\ UNCHANGED <<outsideKernel, NumThreads, rootInit, role, barriers, WorkFn, work_fn,
                 exec_status, invoked, ended, reads, activated, dispatched, completed>>

\* emitWorkerLoop, .terminate.parallel: __kmpc_kernel_end_parallel, then the
\* lane is at the barrier of .barrier.parallel
WorkerEndParallel(t) ==
  /\ pc[t] = "terminate"
  /\ ended' = [ended EXCEPT ![t] = @ + 1]
  /\ pc' = [pc EXCEPT ![t] = "barrier"]
  /\ UNCHANGED <<outsideKernel, NumThreads, rootInit, role, barriers, WorkFn, work_fn,
                 exec_status, invoked, reads, activated, dispatched, completed>>

Next ==
  \/ \E t \in Lanes : KernelInitializer(t)
  \/ \E t \in Lanes : MasterKernelInit(t)
  \/ \E t \in Lanes : MasterPrepareParallel(t)
  \/ \E t \in Lanes : MasterEntryFooter(t)
  \/ BarrierSync
  \/ \E t \in Lanes : WorkerKernelParallel(t)
  \/ \E t \in Lanes : WorkerExecute(t)
  \/ \E t \in Lanes : WorkerReturn(t)
  \/ \E t \in Lanes : WorkerEndParallel(t)

Spec == Init /\ [][Next]_vars

\* every lane that can take a step eventually takes one (lanes of a block
\* all keep executing)
FairSpec == Init /\ [][Next]_vars /\ WF_vars(Next)

(***************************************************************************)
(* One lane running through nested parallel / simd regions (SpecLevel)     *)
(***************************************************************************)
\* InL0
InL0(Orphaned, NestingLevel) == ~Orphaned /\ NestingLevel = 0

\* InL1
InL1(Orphaned, NestingLevel) == ~Orphaned /\ NestingLevel = 1

emitParallelismLevelCode_AlwaysChecked(Orphaned, NestingLevel) ==
  LET OnlyInL0 == InL0(Orphaned, NestingLevel)
      OnlyInL1 == InL1(Orphaned, NestingLevel)
      OnlySequential == ~Orphaned /\ ~InL0(Orphaned, NestingLevel)
                           /\ ~InL1(Orphaned, NestingLevel)
  IN [Level0 |-> ~OnlyInL1 /\ ~OnlySequential,
      Check0 |-> TRUE,
      Level1 |-> ~OnlyInL0 /\ ~OnlySequential,
      Check1 |-> TRUE,
      Sequential |-> ~OnlyInL0 /\ ~OnlyInL1,
      CheckSeq |-> TRUE]

\* emitParallelismLevelCode, what is emitted: for each of the three blocks
\* whether it is emitted and whether it is behind a runtime check
emitParallelismLevelCode(Orphaned, NestingLevel) ==
  LET OnlyInL0 == InL0(Orphaned, NestingLevel)
      OnlyInL1 == InL1(Orphaned, NestingLevel)
      OnlySequential == ~Orphaned /\ ~InL0(Orphaned, NestingLevel)
                           /\ ~InL1(Orphaned, NestingLevel)
  IN [Level0 |-> ~OnlyInL1 /\ ~OnlySequential,
      Check0 |-> ~OnlyInL0,
      Level1 |-> ~OnlyInL0 /\ ~OnlySequential,
      Check1 |-> ~OnlyInL1,
      Sequential |-> ~OnlyInL0 /\ ~OnlyInL1,
      CheckSeq |-> ~OnlySequential]

EmittedBlocks(code) ==
  {b \in {"Level0", "Level1", "Sequential"} :
      \/ b = "Level0" /\ code.Level0
      \/ b = "Level1" /\ code.Level1
      \/ b = "Sequential" /\ code.Sequential}

\* the emitted blocks that are entered through a runtime check
CheckedBlocks(code) ==
  {b \in EmittedBlocks(code) :
      \/ b = "Level0" /\ code.Check0
      \/ b = "Level1" /\ code.Check1
      \/ b = "Sequential" /\ code.CheckSeq}

\* emitParallelismLevelCode, what the emitted branches do for one lane: the
\* blocks the lane executes before .after.parallel, in order
RunLevelCode(code, ThreadID, MasterID, Level) ==
  IF code.Level0 /\ (~code.Check0 \/ ThreadID = MasterID)
  THEN <<"Level0">>
  ELSE IF code.Level1 /\ (~code.Check1 \/ Level = 1)
  THEN <<"Level1">>
  ELSE IF code.Sequential /\ (~code.CheckSeq \/ Level > 1)
  THEN <<"Sequential">>
  ELSE << >>

\* increaseParallelismLevel
increaseParallelismLevel(Level, IsSimd) == Level + (IF IsSimd THEN 10 ELSE 1)

\* decreaseParallelismLevel
decreaseParallelismLevel(Level, IsSimd) == Level - (IF IsSimd THEN 10 ELSE 1)

\* ParallelNestingLevelRAII: the static nesting level while the body of the
\* innermost region of the stack is generated
RECURSIVE ParallelNestingLevel(_)
ParallelNestingLevel(stack) ==
  IF stack = << >> THEN 0
  ELSE (IF Head(stack).simd THEN 10 ELSE 1) + ParallelNestingLevel(Tail(stack))

lMasterID == getMasterThreadID(getInt32(lN), getInt32(KernelWarpSize))
lIsMaster == getInt32(lTid) = lMasterID

\* the level dispatch of a call site or wrapper, as run by this lane
LevelDispatch(site) ==
  LET code == emitParallelismLevelCode(IsOrphaned, ParallelNestingLevel(lStack))
  IN [site |-> site,
      blocks |-> EmittedBlocks(code),
      checks |-> CheckedBlocks(code),
      nesting |-> ParallelNestingLevel(lStack),
      executed |-> RunLevelCode(code, getInt32(lTid), lMasterID,
                                ParallelismLevel),
      master |-> lIsMaster,
      level |-> ParallelismLevel]

\* The global __openmp_nvptx_parallelism_levels has a null initializer; only
\* worker lanes and the master run code of the kernel.
LInit ==
  /\ AIdle /\ KIdle /\ CIdle /\ SIdle /\ WIdle /\ FIdle /\ XIdle /\ HIdle /\ RIdle /\ GIdle /\ NIdle /\ MIdle /\ QIdle /\ TIdle
  /\ lN \in KernelWarpSize..MaxThreads
  /\ lTid \in {t \in 0..(lN - 1) :
                 KernelInitializerRole(getInt32(t), getInt32(lN),
                                       getInt32(KernelWarpSize)) # "parked"}
  /\ IsOrphaned \in BOOLEAN
  /\ ParallelismLevel = 0
  /\ lStack = << >>
  /\ lPc = "code"
  /\ lCall = NoCall
  /\ lLast = NoDispatch

\* the lane runs user code: the master its sequential region, any lane the
\* body of a region it is inside
InUserCode == lPc = "code" /\ (lStack # << >> \/ lIsMaster)

\* emitParallelCall without if clause (or if clause true): the level
\* dispatch over L0ParallelGen (the master hands the region to the workers),
\* L1ParallelGen (convergent loop calling the wrapper) and SeqGen (direct
\* call of the outlined function)
EncounterParallel ==
  /\ InUserCode
  /\ ParallelismLevel < MaxLevel
  /\ LET d == LevelDispatch("emitParallelCall")
     IN /\ lLast' = d
        /\ lPc' = IF d.executed = <<"Level1">> THEN "wrapper"
                  ELSE IF d.executed = <<"Sequential">> THEN "call_fn"
                  ELSE "code"
        /\ IF d.executed \in {<<"Level1">>, <<"Sequential">>}
           THEN \E c \in BOOLEAN : lCall' = [simd |-> FALSE, cancel |-> c]
           ELSE lCall' = NoCall
  /\ UNCHANGED <<outsideLevel, lN, lTid, IsOrphaned, ParallelismLevel, lStack>>

\* emitParallelCall with an if clause that is false: emitOMPIfClause runs
\* SeqGen, the outlined function is called directly
EncounterParallelIfFalse ==
  /\ InUserCode
  /\ ParallelismLevel < MaxLevel
  /\ \E c \in BOOLEAN : lCall' = [simd |-> FALSE, cancel |-> c]
  /\ lPc' = "call_fn"
  /\ UNCHANGED <<outsideLevel, lN, lTid, IsOrphaned, ParallelismLevel, lStack,
                 lLast>>

\* emitSimdCall: the level dispatch over SeqGen, L1SimdGen, SeqGen
EncounterSimd ==
  /\ InUserCode
  /\ ParallelismLevel < MaxLevel
  /\ LET d == LevelDispatch("emitSimdCall")
     IN /\ lLast' = d
        /\ lPc' = IF d.executed = <<"Level1">> THEN "wrapper"
                  ELSE IF d.executed = << >> THEN "code"
                  ELSE "call_fn"
        /\ lCall' = IF d.executed = << >> THEN NoCall
                    ELSE [simd |-> TRUE, cancel |-> FALSE]
  /\ UNCHANGED <<outsideLevel, lN, lTid, IsOrphaned, ParallelismLevel, lStack>>

\* emitWorkerLoop, .execute.fn: a worker in the worker loop calls the wrapper
\* of the region the master dispatched
WorkerLoopInvoke ==
  /\ lPc = "code" /\ lStack = << >> /\ ~lIsMaster
  /\ ParallelismLevel < MaxLevel
  /\ \E c \in BOOLEAN : lCall' = [simd |-> FALSE, cancel |-> c]
  /\ lPc' = "wrapper"
  /\ UNCHANGED <<outsideLevel, lN, lTid, IsOrphaned, ParallelismLevel, lStack,
                 lLast>>

\* createDataSharingParallelWrapper: the wrapper's level dispatch resolves
\* the arguments, then the wrapper calls the outlined function
WrapperDispatch ==
  /\ lPc = "wrapper"
  /\ lLast' = LevelDispatch("wrapper")
  /\ lPc' = "call_fn"
  /\ UNCHANGED <<outsideLevel, lN, lTid, IsOrphaned, ParallelismLevel, lStack,
                 lCall>>

\* CodeGenWithDataSharing, entry of the outlined function:
\* increaseParallelismLevel, then the region body
EnterBody ==
  /\ lPc = "call_fn"
  /\ ParallelismLevel' = increaseParallelismLevel(ParallelismLevel, lCall.simd)
  /\ lStack' = <<[simd |-> lCall.simd, cancel |-> lCall.cancel,
                  saved |-> ParallelismLevel]>> \o lStack
  /\ lPc' = "code"
  /\ lCall' = NoCall
  /\ UNCHANGED <<outsideLevel, lN, lTid, IsOrphaned, lLast>>

\* CodeGenWithDataSharing, end of the region body: decreaseParallelismLevel,
\* then the outlined function returns
ExitBody ==
  /\ lPc = "code" /\ lStack # << >>
  /\ ParallelismLevel' =
        decreaseParallelismLevel(ParallelismLevel, Head(lStack).simd)
  /\ lStack' = Tail(lStack)
  /\ UNCHANGED <<outsideLevel, lN, lTid, IsOrphaned, lPc, lCall, lLast>>

\* a cancellation point inside a parallel region that has a cancel construct
\* (HasCancel): the body is left by a branch to the return block of the
\* outlined function, which lies behind the code emitted after the body
CancelBody ==
  /\ lPc = "code" /\ lStack # << >>
  /\ Head(lStack).cancel /\ ~Head(lStack).simd
  /\ lStack' = Tail(lStack)
  /\ UNCHANGED <<outsideLevel, lN, lTid, IsOrphaned, ParallelismLevel, lPc,
                 lCall, lLast>>

LNext ==
  \/ EncounterParallel
  \/ EncounterParallelIfFalse
  \/ EncounterSimd
  \/ WorkerLoopInvoke
  \/ WrapperDispatch
  \/ EnterBody
  \/ ExitBody
  \/ CancelBody

SpecLevel == LInit /\ [][LNext]_vars

(***************************************************************************)
(* Convergent drain of a lane group at a Level1 construct (SpecDrain)      *)
(***************************************************************************)
GroupLanes == 0..(MaxGroup - 1)

\* the step primitive, as the interface describes it: it advances the
\* lane's source cell to the next lane of the group with a pending request
\* and raises is-final when that request is the last one
ConvergentStep(mask, source) ==
  LET remaining == {m \in mask : m > source}
  IN IF remaining = {}
     THEN [source |-> source, final |-> 1]
     ELSE [source |-> CHOOSE m \in remaining : \A n \in remaining : m <= n,
           final |-> IF Cardinality(remaining) = 1 THEN 1 ELSE 0]

\* the step primitive's return value: the lane is one of those that
\* execute the selected request
ConvergentActive(mask, lane, threads) ==
  Cardinality({m \in mask : m < lane}) < threads

StepName == IF cSimd THEN "kernel_convergent_simd"
            ELSE "kernel_convergent_parallel"
EndStepName == IF cSimd THEN "kernel_end_convergent_simd"
               ELSE "kernel_end_convergent_parallel"

\* one call made by a lane
Call(op, source, active, final, buffer) ==
  [op |-> op, source |-> source, active |-> active, final |-> final,
   buffer |-> buffer]

\* L1ParallelGen / L1SimdGen up to .do.body: is_final is initialised to 0
\* and work_source to -1
CInit ==
  /\ AIdle /\ KIdle /\ LIdle /\ SIdle /\ WIdle /\ FIdle /\ XIdle /\ HIdle /\ RIdle /\ GIdle /\ NIdle /\ MIdle /\ QIdle /\ TIdle
  /\ cSimd \in BOOLEAN
  /\ cMask \in (SUBSET GroupLanes) \ {{}}
  /\ cNumThreads \in 1..Cardinality(cMask)
  /\ cPc = [l \in cMask |-> "do.body"]
  /\ IsFinal = [l \in cMask |-> 0]
  /\ WorkSource = [l \in cMask |-> -1]
  /\ cTrace = [l \in cMask |-> << >>]

\* .do.body: the call of the step primitive with task_state, is_final and
\* work_source, and the branch on its return value
DoBody(l) ==
  /\ cPc[l] = "do.body"
  /\ LET r == ConvergentStep(cMask, WorkSource[l])
         active == ConvergentActive(cMask, l, cNumThreads)
     IN /\ WorkSource' = [WorkSource EXCEPT ![l] = r.source]
        /\ IsFinal' = [IsFinal EXCEPT ![l] = r.final]
        /\ cTrace' = [cTrace EXCEPT ![l] =
              Append(@, Call(StepName, r.source, active, r.final, l))]
        /\ cPc' = [cPc EXCEPT ![l] =
              IF active THEN "do.body.execute" ELSE "do.cond"]
  /\ UNCHANGED <<outsideDrain, cSimd, cMask, cNumThreads>>

ExecuteWrapper_OwnLane(l) ==
  /\ cPc[l] = "do.body.execute"
  /\ cTrace' = [cTrace EXCEPT ![l] =
        Append(@, Call("wrapper", l, TRUE, IsFinal[l], l))]
  /\ cPc' = [cPc EXCEPT ![l] = "end.step"]
  /\ UNCHANGED <<outsideDrain, cSimd, cMask, cNumThreads, IsFinal, WorkSource>>

\* .do.body.execute, first half: the wrapper is called with the value
\* loaded from work_source
ExecuteWrapper(l) ==
  /\ cPc[l] = "do.body.execute"
  /\ cTrace' = [cTrace EXCEPT ![l] =
        Append(@, Call("wrapper", WorkSource[l], TRUE, IsFinal[l], l))]
  /\ cPc' = [cPc EXCEPT ![l] = "end.step"]
  /\ UNCHANGED <<outsideDrain, cSimd, cMask, cNumThreads, IsFinal, WorkSource>>

\* .do.body.execute, second half: the end-step call with task_state, then
\* the branch to .do.cond
ExecuteEndStep(l) ==
  /\ cPc[l] = "end.step"
  /\ cTrace' = [cTrace EXCEPT ![l] =
        Append(@, Call(EndStepName, WorkSource[l], TRUE, IsFinal[l], l))]
  /\ cPc' = [cPc EXCEPT ![l] = "do.cond"]
  /\ UNCHANGED <<outsideDrain, cSimd, cMask, cNumThreads, IsFinal, WorkSource>>

DoCond_SingleIteration(l) ==
  /\ cPc[l] = "do.cond"
  /\ cPc' = [cPc EXCEPT ![l] = "do.end"]
  /\ UNCHANGED <<outsideDrain, cSimd, cMask, cNumThreads, IsFinal, WorkSource,
                 cTrace>>

\* .do.cond: is_done = (is_final == 1); leave the loop or iterate
DoCond(l) ==
  /\ cPc[l] = "do.cond"
  /\ cPc' = [cPc EXCEPT ![l] = IF IsFinal[l] = 1 THEN "do.end" ELSE "do.body"]
  /\ UNCHANGED <<outsideDrain, cSimd, cMask, cNumThreads, IsFinal, WorkSource,
                 cTrace>>

CNext ==
  \/ \E l \in cMask : DoBody(l)
  \/ \E l \in cMask : ExecuteWrapper(l)
  \/ \E l \in cMask : ExecuteEndStep(l)
  \/ \E l \in cMask : DoCond(l)

SpecDrain == CInit /\ [][CNext]_vars

(***************************************************************************)
(* SpecShare: data sharing of one enclosing context.  The context's body   *)
(* is a sequence of parallel/simd regions, each with its capture list.     *)
(* createDataSharingInfo plans the capture descriptors and the two record  *)
(* layouts, the share helper (".data_share") fills the frame, and the      *)
(* wrapper of each region resolves the arguments of the outlined function. *)
(***************************************************************************)
\* most captures the regions of one context have together
MaxCaptures == 3

\* captured identities: VarDecls, and "this" for the null VarDecl
Identities == {"x", "y", "this"}
VarDecls == Identities \ {"this"}

\* how a capture initialises its field, and what GetAddrOfLocalVar yields
\* for the variable: an alloca, a load (the variable is a reference) or a
\* bitcast
CaptureKinds == {"alloca", "load", "bitcast", "vla", "bycopy"}

\* (*I)->getType() of the capture initialiser
ExprType(CurVD) == IF CurVD = "this" THEN "S*" ELSE IF CurVD = "x" THEN "int" ELSE "double"

getPointerType(T) == T \o "*"
getConstantArrayType(ElemTy, NumElems) == [elem |-> ElemTy, size |-> NumElems]

\* a region's capture list: distinct identities, in the region's own order
CaptureLists ==
  UNION {{cs \in [1..n -> Identities] : \A i, j \in 1..n : cs[i] = cs[j] => i = j}
           : n \in 1..MaxCaptures}

RECURSIVE Flatten(_)
Flatten(ss) == IF ss = << >> THEN << >> ELSE Head(ss) \o Flatten(Tail(ss))

\* the body of a context: its parallel/simd regions in textual order
Bodies ==
  {rs \in UNION {[1..n -> CaptureLists] : n \in 1..MaxCaptures} :
     Len(Flatten(rs)) <= MaxCaptures}

RECURSIVE Reverse(_)
Reverse(s) == IF s = << >> THEN << >> ELSE Append(Reverse(Tail(s)), Head(s))

\* the work list is popped from its back, so sibling regions of the body are
\* collected last to first
CapturedStmts(Body) == Reverse(Body)

\* DataSharingInfo::add
add(info, VD, DST) ==
  [info EXCEPT !.CapturesValues = Append(@, [first |-> VD, second |-> DST])]

addFieldToRecordDecl(RD, FieldTy) == Append(RD, FieldTy)

\* the data sharing type of a supported capture
DataSharingType(CurVD, decls) ==
  IF CurVD = "this" THEN "DST_Val"
  ELSE IF decls[CurVD] = "load" THEN "DST_Ref"
  ELSE IF decls[CurVD] = "bitcast" THEN "DST_Cast"
  ELSE "DST_Val"

\* the capture is one the planner passes over: both asserts test a string
\* literal, which is never null, and the loop continues
SkippedCapture(CurVD, decls) ==
  CurVD # "this" /\ decls[CurVD] \in {"vla", "bycopy"}

AlreadyShared_Never(AlreadySharedDecls, CurVD) == FALSE

AlreadyShared(AlreadySharedDecls, CurVD) == CurVD \in AlreadySharedDecls

ElemTyOf_NeverPointer(CurVD, DST) == ExprType(CurVD)

\* element type of the capture's field: a pointer when the reference is shared
ElemTyOf(CurVD, DST) ==
  IF DST = "DST_Ref" THEN getPointerType(ExprType(CurVD)) ELSE ExprType(CurVD)

addCapture_NoWarpFieldForRef(info, CurVD, DST) ==
  LET ElemTy == ElemTyOf(CurVD, DST)
      QTy == getConstantArrayType(ElemTy, DS_Max_Worker_Warp_Size)
  IN [add(info, CurVD, DST) EXCEPT
        !.MasterRecordType = addFieldToRecordDecl(@, ElemTy),
        !.WorkerWarpRecordType =
           IF DST = "DST_Ref" THEN @ ELSE addFieldToRecordDecl(@, QTy)]

\* a new descriptor and its field in each of the two records
addCapture(info, CurVD, DST) ==
  LET ElemTy == ElemTyOf(CurVD, DST)
      QTy == getConstantArrayType(ElemTy, DS_Max_Worker_Warp_Size)
  IN [add(info, CurVD, DST) EXCEPT
        !.MasterRecordType = addFieldToRecordDecl(@, ElemTy),
        !.WorkerWarpRecordType = addFieldToRecordDecl(@, QTy)]

RECURSIVE ScanCaptures(_, _, _, _)
\* the loop over the captures of all captured statements
ScanCaptures(caps, decls, AlreadySharedDecls, info) ==
  IF caps = << >> THEN info
  ELSE LET CurVD == Head(caps)
           DST == DataSharingType(CurVD, decls)
       IN IF SkippedCapture(CurVD, decls)
            THEN ScanCaptures(Tail(caps), decls, AlreadySharedDecls, info)
          ELSE IF AlreadyShared(AlreadySharedDecls, CurVD)
            THEN ScanCaptures(Tail(caps), decls, AlreadySharedDecls, info)
          ELSE ScanCaptures(Tail(caps), decls, AlreadySharedDecls \cup {CurVD},
                            addCapture(info, CurVD, DST))

\* what evaluating the body of the context can do: for a CapturedDecl it is
\* D->getBody(); for any other declaration D is the null result of the failed
\* dyn_cast, cast<FunctionDecl>(D) is applied to a null pointer, and the build
\* either stops there or goes on with the function's body
BodyOutcomes(Context) ==
  IF Context = "CapturedDecl" THEN {"body"} ELSE {"crash", "body"}

createDataSharingInfo(Body, decls) ==
  ScanCaptures(Flatten(CapturedStmts(Body)), decls, {},
               [NoInfo EXCEPT !.inMap = TRUE])

\* ---- values the emitted code stores and passes
\* the address GetAddrOfLocalVar / LoadCXXThis gives for the identity in the
\* sharing lane
OrigAddress(id, lane) == [tag |-> "orig", id |-> id, field |-> 0, lane |-> lane]
\* the value found at that address
Pointee(id, lane) == [tag |-> "pointee", id |-> id, field |-> 0, lane |-> lane]
\* the address of a field of the frame: {0, i} in the master record,
\* {0, i, lane} in the warp record
FieldAddress(Level, i, lane) ==
  [tag |-> IF Level = 0 THEN "master" ELSE "warp", id |-> "", field |-> i,
   lane |-> lane]
Undef == [tag |-> "undef", id |-> "", field |-> 0, lane |-> 0]

\* lanes that own a slot of the frame: the master alone at Level0, the lanes
\* of the group at Level1
FrameLanes(Level) == IF Level = 0 THEN {0} ELSE GroupLanes

\* what the share helper stores into field i for the lane (the switch on the
\* sharing type in L0ParallelGen / L1ParallelGen)
StoredInField(capture, lane) ==
  IF capture.second = "DST_Ref" THEN OrigAddress(capture.first, lane)
  ELSE IF capture.second = "DST_Cast" THEN Pointee(capture.first, lane)
  ELSE Undef

\* what the share helper stores through *NewAddressIt: DST_Cast falls through
\* to DST_Val; a reference has no new address
NewAddress(capture, Level, i, lane) ==
  IF capture.second = "DST_Ref" THEN Undef ELSE FieldAddress(Level, i, lane)

SInit ==
  /\ AIdle /\ KIdle /\ LIdle /\ CIdle /\ WIdle /\ FIdle /\ XIdle /\ HIdle /\ RIdle /\ GIdle /\ NIdle /\ MIdle /\ QIdle /\ TIdle
  /\ sContext \in {"CapturedDecl", "FunctionDecl"}
  /\ sDecls \in [VarDecls -> CaptureKinds]
  /\ sRegions \in Bodies
  /\ sLevel \in {0, 1}
  /\ sPc = "start"
  /\ Info = NoInfo
  /\ sFrame = << >>
  /\ sNewAddr = << >>
  /\ sArgs = NoArgs

\* the first parallel/simd directive of the context is registered
registerParallelContext ==
  /\ sPc = "start"
  /\ ~Info.inMap
  /\ \E outcome \in BodyOutcomes(sContext) :
       IF outcome = "crash"
         THEN /\ sPc' = "planning-crashed"
              /\ Info' = [NoInfo EXCEPT !.inMap = TRUE]
         ELSE /\ sPc' = "planned"
              /\ Info' = createDataSharingInfo(sRegions, sDecls)
  /\ UNCHANGED <<sContext, sDecls, sRegions, sLevel, sFrame, sNewAddr, sArgs>>
  /\ UNCHANGED outsideShare

\* the share helper runs in every lane that owns a slot of the frame; with
\* no descriptor no helper is created
DataShare ==
  /\ sPc = "planned"
  /\ sPc' = "shared"
  /\ LET n == Len(Info.CapturesValues)
     IN /\ sFrame' = [i \in 1..n |->
                        [lane \in FrameLanes(sLevel) |->
                           StoredInField(Info.CapturesValues[i], lane)]]
        /\ sNewAddr' = [i \in 1..n |->
                          [lane \in FrameLanes(sLevel) |->
                             NewAddress(Info.CapturesValues[i], sLevel, i, lane)]]
  /\ UNCHANGED <<sContext, sDecls, sRegions, sLevel, Info, sArgs>>
  /\ UNCHANGED outsideShare

\* index of the descriptor with the identity VD; the size of the list when
\* there is none
RECURSIVE FindCapture(_, _, _)
FindCapture(CapturesValues, VD, Idx) ==
  IF Idx > Len(CapturesValues) THEN Idx
  ELSE IF CapturesValues[Idx].first = VD THEN Idx
  ELSE FindCapture(CapturesValues, VD, Idx + 1)

CaptureIndex_ByPosition(DSI, VD, ArgsIdx) == ArgsIdx

CaptureIndex(DSI, VD, ArgsIdx) == FindCapture(DSI.CapturesValues, VD, 1)

\* the type FI points at: FI walks the fields of the master record in step
\* with the region's captures
FieldTypeAt(DSI, ArgsIdx) ==
  IF ArgsIdx <= Len(DSI.MasterRecordType) THEN DSI.MasterRecordType[ArgsIdx]
  ELSE "<past-the-end>"

\* the argument the wrapper stores for capture number ArgsIdx of the region
ResolveArg(DSI, frame, Level, VD, ArgsIdx, SourceLaneID) ==
  LET Idx == CaptureIndex(DSI, VD, ArgsIdx)
      lane == IF Level = 0 THEN 0 ELSE SourceLaneID
  IN IF Idx > Len(DSI.CapturesValues)
       THEN [capture |-> VD, field |-> Idx, loaded |-> FALSE, value |-> Undef,
             type |-> "<none>"]
     ELSE IF DSI.CapturesValues[Idx].second = "DST_Ref"
       THEN [capture |-> VD, field |-> Idx, loaded |-> TRUE,
             value |-> frame[Idx][lane],
             type |-> FieldTypeAt(DSI, ArgsIdx)]
     ELSE [capture |-> VD, field |-> Idx, loaded |-> FALSE,
           value |-> FieldAddress(Level, Idx, lane),
           type |-> getPointerType(FieldTypeAt(DSI, ArgsIdx))]

\* a capture of the region has no descriptor
MissingCapture(DSI, CS) ==
  \E k \in 1..Len(CS) : FindCapture(DSI.CapturesValues, CS[k], 1) > Len(DSI.CapturesValues)

\* what a build does with a region that has a capture without descriptor:
\* the asserts of the wrapper stop a build with assertions; without them the
\* index runs past the descriptors
WrapperOutcomes(DSI, CS) ==
  IF MissingCapture(DSI, CS) THEN {"crash", "args"} ELSE {"args"}

\* the wrapper of one of the regions is called for the request of
\* SourceLaneID
Wrapper ==
  /\ sPc = "shared"
  /\ \E r \in 1..Len(sRegions) :
     \E SourceLaneID \in FrameLanes(sLevel) :
     \E outcome \in WrapperOutcomes(Info, sRegions[r]) :
       IF outcome = "crash"
         THEN /\ sPc' = "wrapper-crashed"
              /\ sArgs' = sArgs
         ELSE /\ sPc' = "called"
              /\ sArgs' = [region |-> r, source |-> SourceLaneID,
                           args |-> [k \in 1..Len(sRegions[r]) |->
                                       ResolveArg(Info, sFrame, sLevel,
                                                  sRegions[r][k], k,
                                                  SourceLaneID)]]
  /\ UNCHANGED <<sContext, sDecls, sRegions, sLevel, Info, sFrame, sNewAddr>>
  /\ UNCHANGED outsideShare

SNext ==
  \/ registerParallelContext
  \/ DataShare
  \/ Wrapper

SpecShare == SInit /\ [][SNext]_vars

(***************************************************************************)
(* SpecWalk: the walk of createDataSharingInfo over the body of a context. *)
(* A statement is a record of its kind and its children; a statement of    *)
(* the body is named by its path, the child numbers from the root.         *)
(***************************************************************************)
\* most statements of a body
MaxNodes == 5

\* directives whose kind satisfies isOpenMPParallelDirective or
\* isOpenMPSimdDirective
RegionKinds == {"parallel", "simd"}
IsRegion(stmt) == stmt.kind \in RegionKinds

RECURSIVE TreesOf(_)
RECURSIVE ForestsOf(_)
\* statements made of exactly n statements: an ordinary statement with any
\* children (a null child among them), a directive other than parallel/simd
\* with or without associated statement, a parallel or simd directive with
\* its associated statement
TreesOf(n) ==
  IF n = 1
    THEN {[kind |-> k, kids |-> << >>] : k \in {"stmt", "null", "directive"}}
  ELSE {[kind |-> k, kids |-> <<t>>] :
           k \in RegionKinds \cup {"directive"},
           t \in {u \in TreesOf(n - 1) : u.kind # "null"}}
       \cup {[kind |-> "stmt", kids |-> f] : f \in ForestsOf(n - 1)}

\* sequences of statements made of exactly m statements together
ForestsOf(m) ==
  {<<t>> : t \in TreesOf(m)}
  \cup UNION {{<<t>> \o f : t \in TreesOf(j), f \in ForestsOf(m - j)} :
                j \in 1..(m - 1)}

\* bodies a context can have
BodyTrees == {t \in UNION {TreesOf(n) : n \in 1..MaxNodes} : t.kind # "null"}

RECURSIVE At(_, _)
\* the statement of the tree the path names
At(tree, path) ==
  IF path = << >> THEN tree ELSE At(tree.kids[Head(path)], Tail(path))

RECURSIVE Paths(_)
Paths(tree) ==
  {<< >>} \cup UNION {{<<i>> \o q : q \in Paths(tree.kids[i])} :
                        i \in 1..Len(tree.kids)}

\* CurStmt->child_begin() .. child_end()
children(tree, path) == [i \in 1..Len(At(tree, path).kids) |-> Append(path, i)]

WInit ==
  /\ AIdle /\ KIdle /\ LIdle /\ CIdle /\ SIdle /\ FIdle /\ XIdle /\ HIdle /\ RIdle /\ GIdle /\ NIdle /\ MIdle /\ QIdle /\ TIdle
  /\ wBody \in BodyTrees
  /\ WorkList = << << >> >>
  /\ wCapturedStmts = << >>

\* WorkList.pop_back_val()
CurStmt == WorkList[Len(WorkList)]
Popped == SubSeq(WorkList, 1, Len(WorkList) - 1)

\* a null statement is passed over
VisitNull ==
  /\ WorkList # << >>
  /\ At(wBody, CurStmt).kind = "null"
  /\ WorkList' = Popped
  /\ UNCHANGED <<wBody, wCapturedStmts>>
  /\ UNCHANGED outsideWalk

VisitRegion_Descend ==
  /\ WorkList # << >>
  /\ IsRegion(At(wBody, CurStmt))
  /\ wCapturedStmts' = Append(wCapturedStmts, CurStmt)
  /\ WorkList' = Popped \o children(wBody, CurStmt)
  /\ UNCHANGED wBody
  /\ UNCHANGED outsideWalk

\* a parallel or simd directive: its captured statement is recorded and the
\* walk does not enter it
VisitRegion ==
  /\ WorkList # << >>
  /\ IsRegion(At(wBody, CurStmt))
  /\ wCapturedStmts' = Append(wCapturedStmts, CurStmt)
  /\ WorkList' = Popped
  /\ UNCHANGED wBody
  /\ UNCHANGED outsideWalk

\* any other directive: the statement it captures is looked into, if it has
\* one
VisitDirective ==
  /\ WorkList # << >>
  /\ At(wBody, CurStmt).kind = "directive"
  /\ WorkList' = IF At(wBody, CurStmt).kids # << >>
                   THEN Append(Popped, Append(CurStmt, 1))
                 ELSE Popped
  /\ UNCHANGED <<wBody, wCapturedStmts>>
  /\ UNCHANGED outsideWalk

\* an ordinary statement: its children are put on the work list
VisitStatement ==
  /\ WorkList # << >>
  /\ At(wBody, CurStmt).kind = "stmt"
  /\ WorkList' = Popped \o children(wBody, CurStmt)
  /\ UNCHANGED <<wBody, wCapturedStmts>>
  /\ UNCHANGED outsideWalk

WNext ==
  \/ VisitNull
  \/ VisitRegion
  \/ VisitDirective
  \/ VisitStatement

SpecWalk == WInit /\ [][WNext]_vars

(***************************************************************************)
(* SpecInvoke: one lane runs a function of DataSharingFunctionInfoMap       *)
(* after emitRegistrationFunction has inserted the kernel initializer call, *)
(* the share helper call and the closing calls.                             *)
(***************************************************************************)
SharingTypes == {"DST_Val", "DST_Ref", "DST_Cast"}

\* descriptor lists a context can have; none when nothing is captured
CaptureModes == UNION {[1..n -> SharingTypes] : n \in 0..MaxCaptures}

\* DataSharingFunctionInfo::InitializationFunction is set: the helper is
\* created unless there is no descriptor
HasInitializationFunction(captures) == captures # << >>

\* the address of the local variable of descriptor i in the lane
OriginalVal(i, lane) == [tag |-> "orig", id |-> "", field |-> i, lane |-> lane]

FInit ==
  /\ AIdle /\ KIdle /\ LIdle /\ CIdle /\ SIdle /\ WIdle /\ XIdle /\ HIdle /\ RIdle /\ GIdle /\ NIdle /\ MIdle /\ QIdle /\ TIdle
  /\ fIsEntryPoint \in BOOLEAN
  /\ fCaptures \in CaptureModes
  \* a function that is no entry point is in the map only with its helper
  /\ fIsEntryPoint \/ HasInitializationFunction(fCaptures)
  \* the helper is made at the first parallel or simd call of the function:
  \* in an entry function that call is not inside a region
  /\ \E Orphaned \in BOOLEAN, NestingLevel \in 0..2 :
        /\ fIsEntryPoint => NestingLevel = 0
        /\ fCode = emitParallelismLevelCode(Orphaned, NestingLevel)
  /\ fRole \in {"master", "worker", "excess"}
  \* only the lanes of an entry function's launch include excess lanes
  /\ fIsEntryPoint \/ fRole # "excess"
  /\ fLevel \in 0..MaxLevel
  /\ fLane \in GroupLanes
  /\ fPc = "entry"
  /\ fRan = << >>
  /\ fCalls = << >>
  /\ fSaved = FALSE
  /\ fNewAddr = [i \in 1..Len(fCaptures) |-> Undef]

\* InitializeEntryPoint: the call of __omp_kernel_initialization and the
\* branch on its result.  Workers initialize their warp's pool, run the worker
\* function and leave through the exit block, as do the lanes in excess; the
\* master initializes the master pool and goes on in .master
InitializeEntryPoint ==
  /\ fPc = "entry"
  /\ fIsEntryPoint
  /\ \E IsWarpActiveMaster \in BOOLEAN :
       fCalls' = fCalls \o
          (IF fRole = "worker" THEN initializeDataSharing(FALSE, IsWarpActiveMaster)
           ELSE IF fRole = "master" THEN initializeDataSharing(TRUE, FALSE)
           ELSE << >>)
  /\ fPc' = IF fRole # "master" THEN "return"
            ELSE IF HasInitializationFunction(fCaptures) THEN "helper"
            ELSE "body"
  /\ UNCHANGED <<fIsEntryPoint, fCaptures, fCode, fRole, fLevel, fLane, fRan,
                 fSaved, fNewAddr>>
  /\ UNCHANGED outsideInvoke

\* a function that is no entry point starts with the helper call
EnterFunction ==
  /\ fPc = "entry"
  /\ ~fIsEntryPoint
  /\ fPc' = "helper"
  /\ UNCHANGED <<fIsEntryPoint, fCaptures, fCode, fRole, fLevel, fLane, fRan,
                 fCalls, fSaved, fNewAddr>>
  /\ UNCHANGED outsideInvoke

AcquireArgs_MasterSlotEverywhere(block) ==
  [size |-> "MasterRecordType", default |-> DS_Slot_Size]

\* size and default size the helper passes to
\* __kmpc_data_sharing_environment_begin in a block of the level dispatch
AcquireArgs(block) ==
  IF block = "Level0"
    THEN [size |-> "MasterRecordType", default |-> DS_Slot_Size]
  ELSE [size |-> "WorkerWarpRecordType", default |-> DS_Worker_Warp_Slot_Size]

\* the address the helper stores for descriptor i in a block
HelperNewAddress(block, DST, i, lane) ==
  IF DST = "DST_Ref" THEN Undef
  ELSE IF block = "Level0" THEN FieldAddress(0, i, 0)
  ELSE IF block = "Level1" THEN FieldAddress(1, i, lane)
  ELSE OriginalVal(i, lane)

\* the share helper: in an entry function every lane but the master skips
\* it; otherwise the lane executes the blocks the level dispatch selects
DataShareHelper ==
  /\ fPc = "helper"
  /\ fPc' = "body"
  /\ LET skipped == fIsEntryPoint /\ fRole # "master"
         blocks == IF skipped THEN << >>
                   ELSE RunLevelCode(fCode, IF fRole = "master" THEN 1 ELSE 0, 1,
                                     fLevel)
     IN /\ fRan' = blocks
        /\ IF blocks # << >> /\ blocks[1] \in {"Level0", "Level1"}
             THEN /\ fCalls' = Append(fCalls,
                       SharingCall("begin", AcquireArgs(blocks[1]).size,
                                   AcquireArgs(blocks[1]).default, TRUE, FALSE))
                  /\ fSaved' = TRUE
             ELSE UNCHANGED <<fCalls, fSaved>>
        /\ fNewAddr' = IF blocks = << >> THEN fNewAddr
                       ELSE [i \in 1..Len(fCaptures) |->
                               HelperNewAddress(blocks[1], fCaptures[i], i, fLane)]
  /\ UNCHANGED <<fIsEntryPoint, fCaptures, fCode, fRole, fLevel, fLane>>
  /\ UNCHANGED outsideInvoke

\* the code of the function up to a return instruction
RunBody ==
  /\ fPc = "body"
  /\ fPc' = "return"
  /\ UNCHANGED <<fIsEntryPoint, fCaptures, fCode, fRole, fLevel, fLane, fRan,
                 fCalls, fSaved, fNewAddr>>
  /\ UNCHANGED outsideInvoke

\* the call inserted before every return instruction of a function with a
\* helper; an entry function without helper gets none
ClosingCalls(HasInit, saved, IsEntryPoint) ==
  IF HasInit
    THEN <<SharingCall("end", "", 0, saved, IsEntryPoint)>>
  ELSE << >>

Return ==
  /\ fPc = "return"
  /\ fPc' = "done"
  /\ fCalls' = fCalls \o ClosingCalls(HasInitializationFunction(fCaptures),
                                      fSaved, fIsEntryPoint)
  /\ UNCHANGED <<fIsEntryPoint, fCaptures, fCode, fRole, fLevel, fLane, fRan,
                 fSaved, fNewAddr>>
  /\ UNCHANGED outsideInvoke

FNext ==
  \/ InitializeEntryPoint
  \/ EnterFunction
  \/ DataShareHelper
  \/ RunBody
  \/ Return

SpecInvoke == FInit /\ [][FNext]_vars

(***************************************************************************)
(* One lane's accesses to block-shared state (SpecAccess): the entry of    *)
(* __openmp_nvptx_parallelism_levels the lane's loads and stores address,  *)
(* and the lanes whose runtime calls write the work-function cell.         *)
(***************************************************************************)
\* enum DATA_SHARING_SIZES: the array type is [DS_Max_Worker_Threads x i32]
DS_Max_Worker_Threads == 992

\* blocks of at least one full lane group; 1024 is the largest block, 992
\* workers and the master's group
AccessBlockSizes == {n \in BlockSizes : n >= DS_Max_Worker_Warp_Size}

\* entry i of the global array
LevelEntry(i) == [object |-> "__openmp_nvptx_parallelism_levels", index |-> i]

\* getParallelismLevelLValue: GEP of the array with indices {0, tid}.  An
\* index past the last entry is outside the object: the access lands in
\* whatever lies behind the array in shared memory, or is dropped
getParallelismLevelLValue(ThreadID) ==
  IF ValueOf(ThreadID) < DS_Max_Worker_Threads
  THEN {LevelEntry(ValueOf(ThreadID))}
  ELSE {[object |-> "behind __openmp_nvptx_parallelism_levels",
         index |-> ValueOf(ThreadID) - DS_Max_Worker_Threads],
        [object |-> "none", index |-> 0]}

\* values a load through the address can yield
Loaded(loc) == IF loc = LevelEntry(xTid) THEN {xLevel} ELSE 0..MaxLevel

LevelAccess(op, loc) == [op |-> op, loc |-> loc]

\* emitParallelismLevelCode: calls of getParallelismLevel the lane executes
\* on its way through the emitted checks
LevelChecksRead(code, ThreadID, MasterID, Level) ==
  LET took0 == code.Level0 /\ (~code.Check0 \/ ThreadID = MasterID)
      took1 == ~took0 /\ code.Level1 /\ (~code.Check1 \/ Level = 1)
  IN (IF ~took0 /\ code.Level1 /\ code.Check1 THEN 1 ELSE 0)
       + (IF ~took0 /\ ~took1 /\ code.Sequential /\ code.CheckSeq
            THEN 1 ELSE 0)

xMasterID == getMasterThreadID(getInt32(xN), getInt32(DS_Max_Worker_Warp_Size))
xIsMaster == getInt32(xTid) = xMasterID
xCode == emitParallelismLevelCode(xOrphaned, ParallelNestingLevel(xStack))

\* only worker lanes and the master run code of the kernel; the array has a
\* null initializer
XInit ==
  /\ AIdle /\ KIdle /\ LIdle /\ CIdle /\ SIdle /\ WIdle /\ FIdle /\ HIdle /\ RIdle /\ GIdle /\ NIdle /\ MIdle /\ QIdle /\ TIdle
  /\ xN \in AccessBlockSizes
  /\ xTid \in {t \in 0..(xN - 1) :
                 KernelInitializerRole(getInt32(t), getInt32(xN),
                     getInt32(DS_Max_Worker_Warp_Size)) # "parked"}
  /\ xOrphaned \in BOOLEAN
  /\ xLevel = 0
  /\ xStack = << >>
  /\ xPc = "code"
  /\ xSimd = FALSE
  /\ xTouched = {}
  /\ xWriters = {}

\* the lane runs user code: the master its sequential region, any lane the
\* body of a region it is inside
XInUserCode ==
  /\ xPc = "code" /\ (xStack # << >> \/ xIsMaster)
  /\ xLevel < MaxLevel /\ Len(xStack) < MaxLevel

\* the lane runs the checks of a level dispatch: the loads it makes and the
\* block it enters
XDispatch(loc, v) ==
  [ran |-> RunLevelCode(xCode, getInt32(xTid), xMasterID, v),
   loads |-> IF LevelChecksRead(xCode, getInt32(xTid), xMasterID, v) > 0
             THEN {LevelAccess("load", loc)} ELSE {}]

\* emitParallelCall: L0ParallelGen calls __kmpc_kernel_prepare_parallel,
\* which writes the work-function cell; L1ParallelGen calls the wrapper,
\* SeqGen the outlined function
XEncounterParallel ==
  /\ XInUserCode
  /\ \E loc \in getParallelismLevelLValue(getInt32(xTid)) :
       \E v \in Loaded(loc) :
          LET d == XDispatch(loc, v)
          IN /\ xTouched' = xTouched \cup d.loads
             /\ xWriters' = IF d.ran = <<"Level0">> THEN xWriters \cup {xTid}
                            ELSE xWriters
             /\ xPc' = IF d.ran = <<"Level1">> THEN "wrapper"
                       ELSE IF d.ran = <<"Sequential">> THEN "call_fn"
                       ELSE "code"
  /\ xSimd' = FALSE
  /\ UNCHANGED <<xN, xTid, xOrphaned, xLevel, xStack>>
  /\ UNCHANGED outsideAccess

\* emitParallelCall with an if clause that is false: SeqGen
XEncounterParallelIfFalse ==
  /\ XInUserCode
  /\ xPc' = "call_fn"
  /\ xSimd' = FALSE
  /\ UNCHANGED <<xN, xTid, xOrphaned, xLevel, xStack, xTouched, xWriters>>
  /\ UNCHANGED outsideAccess

\* emitSimdCall: the level dispatch over SeqGen, L1SimdGen, SeqGen
XEncounterSimd ==
  /\ XInUserCode
  /\ \E loc \in getParallelismLevelLValue(getInt32(xTid)) :
       \E v \in Loaded(loc) :
          LET d == XDispatch(loc, v)
          IN /\ xTouched' = xTouched \cup d.loads
             /\ xPc' = IF d.ran = <<"Level1">> THEN "wrapper"
                       ELSE IF d.ran = << >> THEN "code"
                       ELSE "call_fn"
  /\ xSimd' = TRUE
  /\ UNCHANGED <<xN, xTid, xOrphaned, xLevel, xStack, xWriters>>
  /\ UNCHANGED outsideAccess

\* emitWorkerLoop, .execute.fn: a worker calls the dispatched wrapper
XWorkerLoopInvoke ==
  /\ xPc = "code" /\ xStack = << >> /\ ~xIsMaster
  /\ xLevel < MaxLevel
  /\ xPc' = "wrapper"
  /\ xSimd' = FALSE
  /\ UNCHANGED <<xN, xTid, xOrphaned, xLevel, xStack, xTouched, xWriters>>
  /\ UNCHANGED outsideAccess

\* createDataSharingParallelWrapper: the wrapper's level dispatch, then the
\* call of the outlined function
XWrapperDispatch ==
  /\ xPc = "wrapper"
  /\ \E loc \in getParallelismLevelLValue(getInt32(xTid)) :
       \E v \in Loaded(loc) :
          xTouched' = xTouched \cup XDispatch(loc, v).loads
  /\ xPc' = "call_fn"
  /\ UNCHANGED <<xN, xTid, xOrphaned, xLevel, xStack, xSimd, xWriters>>
  /\ UNCHANGED outsideAccess

\* CodeGenWithDataSharing: increaseParallelismLevel loads the entry and
\* stores the sum, then the region body runs
XEnterBody ==
  /\ xPc = "call_fn"
  /\ \E loc \in getParallelismLevelLValue(getInt32(xTid)) :
       \E v \in Loaded(loc) :
          /\ xLevel' = increaseParallelismLevel(v, xSimd)
          /\ xTouched' = xTouched \cup {LevelAccess("load", loc),
                                        LevelAccess("store", loc)}
  /\ xStack' = <<[simd |-> xSimd]>> \o xStack
  /\ xPc' = "code"
  /\ xSimd' = FALSE
  /\ UNCHANGED <<xN, xTid, xOrphaned, xWriters>>
  /\ UNCHANGED outsideAccess

\* CodeGenWithDataSharing: decreaseParallelismLevel after the region body
XExitBody ==
  /\ xPc = "code" /\ xStack # << >>
  /\ \E loc \in getParallelismLevelLValue(getInt32(xTid)) :
       \E v \in Loaded(loc) :
          /\ xLevel' = decreaseParallelismLevel(v, Head(xStack).simd)
          /\ xTouched' = xTouched \cup {LevelAccess("load", loc),
                                        LevelAccess("store", loc)}
  /\ xStack' = Tail(xStack)
  /\ UNCHANGED <<xN, xTid, xOrphaned, xPc, xSimd, xWriters>>
  /\ UNCHANGED outsideAccess

\* emitEntryFooter: __kmpc_kernel_deinit clears the work-function cell
XEntryFooter ==
  /\ xPc = "code" /\ xStack = << >> /\ xIsMaster
  /\ xWriters' = xWriters \cup {xTid}
  /\ xPc' = "exit"
  /\ UNCHANGED <<xN, xTid, xOrphaned, xLevel, xStack, xSimd, xTouched>>
  /\ UNCHANGED outsideAccess

XNext ==
  \/ XEncounterParallel
  \/ XEncounterParallelIfFalse
  \/ XEncounterSimd
  \/ XWorkerLoopInvoke
  \/ XWrapperDispatch
  \/ XEnterBody
  \/ XExitBody
  \/ XEntryFooter

SpecAccess == XInit /\ [][XNext]_vars

(***************************************************************************)
(* Finalization of one function (SpecFinal): emitRegistrationFunction      *)
(* inserts the allocas of the saved state and of the shared addresses, the *)
(* loads of the shared addresses, the kernel initializer call of an entry  *)
(* point, the share helper call and the closing calls, and redirects the   *)
(* uses of the replaced values.  A lane then runs the function.            *)
(***************************************************************************)
\* most captured variables of the function
MaxShared == 2

VarNames == <<"a", "b", "c", "d">>

\* what GetAddrOfLocalVar yields for a captured variable: the alloca of a
\* local or of a parameter, the load of a reference handed in as parameter,
\* the bitcast of the alloca of a parameter passed as uintptr
SharedVarShapes ==
  {[kind |-> "alloca", param |-> p] : p \in BOOLEAN}
    \cup {[kind |-> "load", param |-> TRUE],
          [kind |-> "bitcast", param |-> TRUE]}

SharedVars ==
  UNION {{[i \in 1..n |-> [id |-> VarNames[i], kind |-> f[i].kind,
                           param |-> f[i].param]] :
             f \in [1..n -> SharedVarShapes]} : n \in 0..MaxShared}

Instr(name, op, args) == [name |-> name, op |-> op, args |-> args]

\* the value the planner looked at, which ValuesToBeReplaced holds
OriginalValOf(v) ==
  IF v.kind = "alloca" THEN v.id \o ".addr"
  ELSE IF v.kind = "load" THEN v.id \o ".ref"
  ELSE v.id \o ".conv"

RECURSIVE Allocas(_)
Allocas(vs) ==
  IF vs = << >> THEN << >>
  ELSE <<Instr(Head(vs).id \o ".addr", "alloca", << >>)>> \o Allocas(Tail(vs))

RECURSIVE Prologue(_)
\* StartFunction: the parameters are stored to their allocas; references
\* and casted parameters are loaded / cast
Prologue(vs) ==
  IF vs = << >> THEN << >>
  ELSE LET v == Head(vs)
       IN (IF v.param
             THEN <<Instr(v.id \o ".store", "store",
                          <<v.id \o ".param", v.id \o ".addr">>)>>
             ELSE << >>)
          \o (IF v.kind = "load"
                THEN <<Instr(v.id \o ".ref", "load", <<v.id \o ".addr">>)>>
              ELSE IF v.kind = "bitcast"
                THEN <<Instr(v.id \o ".conv", "bitcast", <<v.id \o ".addr">>)>>
              ELSE << >>)
          \o Prologue(Tail(vs))

RECURSIVE BodyUses(_)
\* the function's code uses the address of each captured variable
BodyUses(vs) ==
  IF vs = << >> THEN << >>
  ELSE <<Instr(Head(vs).id \o ".use", "use", <<OriginalValOf(Head(vs))>>)>>
         \o BodyUses(Tail(vs))

\* the function as generated: allocas first (AllocaInsertPt), prologue, the
\* code; an entry function ends with the exit block of emitEntryFooter
GeneratedFunction(vs, IsEntryPoint) ==
  <<Instr("tmp", "alloca", << >>)>> \o Allocas(vs) \o Prologue(vs)
    \o <<Instr("code", "other", << >>)>> \o BodyUses(vs)
    \o (IF IsEntryPoint THEN <<Instr(".exit", "label", << >>)>> ELSE << >>)
    \o <<Instr("ret", "ret", << >>)>>

\* DataSharingFunctionInfo::ValuesToBeReplaced
ValuesToBeReplaced(vs) == [i \in 1..Len(vs) |-> OriginalValOf(vs[i])]

Range(f) == {f[i] : i \in DOMAIN f}
IndexOf(fn, name) == CHOOSE i \in 1..Len(fn) : fn[i].name = name
Uses(I, value) == \E k \in 1..Len(I.args) : I.args[k] = value

\* llvm::Instruction inserted before the instruction InsertPtr
InsertBefore(fn, InsertPtr, Is) ==
  LET i == IndexOf(fn, InsertPtr)
  IN SubSeq(fn, 1, i - 1) \o Is \o SubSeq(fn, i, Len(fn))

\* the header block ends at the first label or return
HeaderBB(fn) ==
  LET ends == {i \in 1..Len(fn) : fn[i].op \in {"label", "ret"}}
      last == CHOOSE i \in ends : \A j \in ends : i <= j
  IN SubSeq(fn, 1, last)

\* index in the header of the last alloca, 0 if there is none
LastAlloca(fn) ==
  LET is == {i \in 1..Len(HeaderBB(fn)) : fn[i].op = "alloca"}
  IN IF is = {} THEN 0 ELSE CHOOSE i \in is : \A j \in is : j <= i

\* index in the header of the last value to be replaced that is no alloca
LastNonAllocaReplacement(fn, Values) ==
  LET is == {i \in 1..Len(HeaderBB(fn)) :
                fn[i].op # "alloca" /\ fn[i].name \in Range(Values)}
  IN IF is = {} THEN 0 ELSE CHOOSE i \in is : \A j \in is : j <= i

IsLoadInst(fn, R) == fn[IndexOf(fn, R)].op = "load"

SavedCells == <<"data_share_slot_saved", "data_share_stack_saved",
                "data_share_frame_saved", "data_share_active_thd_saved">>

RECURSIVE SharedAllocas(_, _)
\* the ".shared" alloca of every value that is no load
SharedAllocas(fn, Values) ==
  IF Values = << >> THEN << >>
  ELSE (IF IsLoadInst(fn, Head(Values)) THEN << >>
        ELSE <<Instr(Head(Values) \o ".shared", "alloca", << >>)>>)
       \o SharedAllocas(fn, Tail(Values))

RECURSIVE InitArgs(_, _)
\* arguments of the helper call after the four saved cells
InitArgs(fn, Values) ==
  IF Values = << >> THEN << >>
  ELSE (IF IsLoadInst(fn, Head(Values)) THEN <<Head(Values)>>
        ELSE <<Head(Values) \o ".shared", Head(Values)>>)
       \o InitArgs(fn, Tail(Values))

Replacements(fn, Values) ==
  SelectSeq(Values, LAMBDA R : ~IsLoadInst(fn, R))

\* name of the load of the shared address that takes the place of From
ToOf(From) == From \o ".shared.load"

MoveUsers_None(fn, From, To) == fn

\* "Check if there are uses of From before To and move them after To": each
\* user found is moved to right behind To, so the moved users end up in
\* reverse order
MoveUsers(fn, From, To) ==
  LET t == IndexOf(fn, To)
      before == SubSeq(fn, 1, t - 1)
      moves(I) == I.name # From /\ Uses(I, From)
  IN SelectSeq(before, LAMBDA I : ~moves(I))
       \o <<fn[t]>>
       \o Reverse(SelectSeq(before, moves))
       \o SubSeq(fn, t + 1, Len(fn))

\* From->replaceAllUsesWith(To)
replaceAllUsesWith(fn, From, To) ==
  [i \in 1..Len(fn) |->
     [fn[i] EXCEPT !.args = [k \in 1..Len(fn[i].args) |->
                               IF fn[i].args[k] = From THEN To
                               ELSE fn[i].args[k]]]]

RECURSIVE DoReplacements(_, _, _)
\* "Do the replacements now": yields the function and the insertion point
DoReplacements(fn, Reps, InsertPtr) ==
  IF Reps = << >> THEN [fn |-> fn, InsertPtr |-> InsertPtr]
  ELSE LET From == Head(Reps)
           To == ToOf(From)
           loaded == InsertBefore(fn, InsertPtr,
                        <<Instr(To, "load", <<From \o ".shared">>)>>)
       IN DoReplacements(
             replaceAllUsesWith(MoveUsers(loaded, From, To), From, To),
             Tail(Reps), To)

\* the lambda InitializeEntryPoint: call of the kernel initializer, compare,
\* split of the block at InsertPtr into the current block and .master, branch
\* to .master or to the entry function's exit block
InitializeEntryPointAt(fn, InsertPtr) ==
  InsertBefore(fn, InsertPtr,
     <<Instr("ShouldReturnImmediatelly", "call_initializer", << >>),
       Instr("Cond", "icmp", <<"ShouldReturnImmediatelly">>),
       Instr("br", "condbr", <<"Cond">>),
       Instr(".master", "label", << >>)>>)

RECURSIVE CloseReturns(_, _)
\* __kmpc_data_sharing_environment_end before every return instruction
CloseReturns(fn, IsEntryPoint) ==
  IF fn = << >> THEN << >>
  ELSE (IF Head(fn).op = "ret"
          THEN <<Instr("close", "call_end",
                       SavedCells \o <<IF IsEntryPoint THEN "1" ELSE "0">>)>>
        ELSE << >>)
       \o <<Head(fn)>> \o CloseReturns(Tail(fn), IsEntryPoint)

\* emitRegistrationFunction, the body of the loop for one function
emitRegistrationFunction(fn, Values, IsEntryPoint) ==
  LET la == LastAlloca(fn)
      InsertPtr0 == IF la > 0 THEN fn[la + 1].name ELSE fn[1].name
  IN IF Values = << >> /\ IsEntryPoint
       THEN InitializeEntryPointAt(fn, InsertPtr0)
     ELSE
       LET allocas == InsertBefore(fn, InsertPtr0,
                         [i \in 1..Len(SavedCells) |->
                             Instr(SavedCells[i], "alloca", << >>)]
                           \o SharedAllocas(fn, Values))
           ln == LastNonAllocaReplacement(allocas, Values)
           InsertPtr1 == IF ln > 0 THEN allocas[ln + 1].name ELSE InsertPtr0
           r == DoReplacements(allocas, Replacements(fn, Values), InsertPtr1)
           entered == IF IsEntryPoint
                        THEN InitializeEntryPointAt(r.fn, r.InsertPtr)
                      ELSE r.fn
           called == InsertBefore(entered, r.InsertPtr,
                        <<Instr("data_share", "call_helper",
                                SavedCells \o InitArgs(fn, Values))>>)
       IN CloseReturns(called, IsEntryPoint)

\* a function is in DataSharingFunctionInfoMap as an entry point or with its
\* helper
HInit ==
  /\ AIdle /\ KIdle /\ LIdle /\ CIdle /\ SIdle /\ WIdle /\ FIdle /\ XIdle /\ RIdle /\ GIdle /\ NIdle /\ MIdle /\ QIdle /\ TIdle
  /\ hEntry \in BOOLEAN
  /\ hVars \in SharedVars
  /\ hEntry \/ hVars # << >>
  /\ hFn = GeneratedFunction(hVars, hEntry)
  /\ hPc = "generated"
  /\ hRole \in {"master", "worker"}
  /\ hIp = 0
  /\ hHelperCalls = 0
  /\ hSharedUses = 0
  /\ hEarly = FALSE

\* the module is finalized
Finalize ==
  /\ hPc = "generated"
  /\ hFn' = emitRegistrationFunction(hFn, ValuesToBeReplaced(hVars), hEntry)
  /\ hPc' = "running"
  /\ hIp' = 1
  /\ UNCHANGED <<hEntry, hVars, hRole, hHelperCalls, hSharedUses, hEarly>>
  /\ UNCHANGED outsideFinal

\* values that stand for a shared address: the loads that took the place of
\* the replaced values
SharedAddresses == {ToOf(OriginalValOf(hVars[i])) : i \in 1..Len(hVars)}

\* the allocas the helper stores the shared addresses to
SharedCells == {OriginalValOf(hVars[i]) \o ".shared" : i \in 1..Len(hVars)}

\* the instruction reads a shared address or works on one
UsesSharedAddress(I) ==
  /\ I.op # "call_helper"
  /\ \E k \in 1..Len(I.args) : I.args[k] \in SharedAddresses \cup SharedCells

\* the lane executes one instruction; the branch of InitializeEntryPoint
\* sends every lane but the master to the exit block
Execute ==
  /\ hPc = "running"
  /\ LET I == hFn[hIp]
     IN /\ hHelperCalls' = IF I.op = "call_helper" THEN hHelperCalls + 1
                           ELSE hHelperCalls
        /\ hSharedUses' = IF UsesSharedAddress(I) THEN hSharedUses + 1
                          ELSE hSharedUses
        /\ hEarly' = (hEarly \/ (UsesSharedAddress(I) /\ hHelperCalls = 0))
        /\ IF I.op = "ret"
           THEN hPc' = "returned" /\ hIp' = hIp
           ELSE /\ hPc' = hPc
                /\ hIp' = IF I.op = "condbr" /\ hRole # "master"
                          THEN IndexOf(hFn, ".exit")
                          ELSE hIp + 1
  /\ UNCHANGED <<hEntry, hVars, hFn, hRole>>
  /\ UNCHANGED outsideFinal

HNext ==
  \/ Finalize
  \/ Execute

SpecFinal == HInit /\ [][HNext]_vars

\* ---------------------------------------------------------------------------
\* SpecRegister: registration of the directives of one enclosing context
\* ---------------------------------------------------------------------------

\* createDataSharingInfo with a second look-up that finds nothing: the scan
\* goes on from the entry DataSharingInfoMap[Context] already holds
lookupDataSharingInfo_Rescan(Map, Body, decls) ==
  ScanCaptures(Flatten(CapturedStmts(Body)), decls, {},
               [Map EXCEPT !.inMap = TRUE])

\* the entry of the context after createDataSharingInfo: an entry that is in
\* the map is returned as it is, a new one is planned from the whole body
lookupDataSharingInfo(Map, Body, decls) ==
  IF Map.inMap THEN Map ELSE createDataSharingInfo(Body, decls)

\* DataSharingFunctionInfo of the enclosing function with no helper
NoFunctionInfo == [InitializationFunction |-> "none", created |-> 0]

\* the helper is created again whenever there is something to share
createDataSharingPerFunctionInfrastructure_Always(DSI, EnclosingFuncInfo) ==
  IF DSI.CapturesValues = << >> THEN EnclosingFuncInfo
  ELSE [InitializationFunction |-> "sharing_func_",
        created |-> EnclosingFuncInfo.created + 1]

\* DataSharingFunctionInfo of the enclosing function after
\* createDataSharingPerFunctionInfrastructure
createDataSharingPerFunctionInfrastructure(DSI, EnclosingFuncInfo) ==
  IF DSI.CapturesValues = << >> THEN EnclosingFuncInfo
  ELSE IF EnclosingFuncInfo.InitializationFunction # "none"
    THEN EnclosingFuncInfo
  ELSE [InitializationFunction |-> "sharing_func_",
        created |-> EnclosingFuncInfo.created + 1]

RInit ==
  /\ AIdle /\ KIdle /\ LIdle /\ CIdle /\ SIdle /\ WIdle /\ FIdle /\ XIdle /\ HIdle /\ GIdle /\ NIdle /\ MIdle /\ QIdle /\ TIdle
  /\ rContext \in {"CapturedDecl", "FunctionDecl"}
  /\ rDecls \in [VarDecls -> CaptureKinds]
  /\ rRegions \in Bodies
  /\ rMap = NoInfo
  /\ rFirst = NoInfo
  /\ rRegistered = {}
  /\ rCalled = {}
  /\ rInitializationFunction = "none"
  /\ rHelpers = 0
  /\ rPc = "codegen"

\* registerParallelContext for directive d of the body: any directive that
\* has not been emitted yet may be the next one
RegisterDirective(d) ==
  /\ rPc = "codegen"
  /\ d \notin rRegistered
  /\ rRegistered \subseteq rCalled
  /\ rRegistered' = rRegistered \cup {d}
  /\ IF rMap.inMap
       THEN /\ rMap' = lookupDataSharingInfo(rMap, rRegions, rDecls)
            /\ UNCHANGED <<rFirst, rPc>>
       ELSE \E outcome \in BodyOutcomes(rContext) :
              IF outcome = "crash"
                THEN /\ rPc' = "planning-crashed"
                     /\ rMap' = [NoInfo EXCEPT !.inMap = TRUE]
                     /\ rFirst' = rMap'
                ELSE /\ rPc' = rPc
                     /\ rMap' = lookupDataSharingInfo(rMap, rRegions, rDecls)
                     /\ rFirst' = rMap'
  /\ UNCHANGED <<rContext, rDecls, rRegions, rCalled, rInitializationFunction,
                 rHelpers>>
  /\ UNCHANGED outsideRegister

\* emitParallelCall / emitSimdCall for the registered directive d
EmitDirectiveCall(d) ==
  /\ rPc = "codegen"
  /\ d \in rRegistered \ rCalled
  /\ rCalled' = rCalled \cup {d}
  /\ LET FuncInfo == createDataSharingPerFunctionInfrastructure(
                       rMap, [InitializationFunction |-> rInitializationFunction,
                              created |-> rHelpers])
     IN /\ rInitializationFunction' = FuncInfo.InitializationFunction
        /\ rHelpers' = FuncInfo.created
  /\ UNCHANGED <<rContext, rDecls, rRegions, rMap, rFirst, rRegistered, rPc>>
  /\ UNCHANGED outsideRegister

RNext ==
  \/ \E d \in 1..Len(rRegions) : RegisterDirective(d)
  \/ \E d \in 1..Len(rRegions) : EmitDirectiveCall(d)

SpecRegister == RInit /\ [][RNext]_vars

\* ---------------------------------------------------------------------------
\* SpecGen: generation order of the units of a module
\* ---------------------------------------------------------------------------
\* units of the module enumerated in SpecGen
MaxUnits == 3

\* a unit is a target region or a device function; par is the static nesting
\* level of the one parallel directive in its body, -1 when it has none
UnitShapes ==
  [kind : {"target", "function"}, par : {-1, 0, 1}]

\* the wrapper of the parallel directive of unit u is numbered u
WrapperOf(u) == u

\* a function body is orphaned: it is not lexically inside a target region
IsOrphanedUnit(unit) == unit.kind = "function"

\* L0ParallelGen runs, and pushes the wrapper, when the Level0 block is
\* emitted
EmitsLevel0(unit) ==
  /\ unit.par >= 0
  /\ emitParallelismLevelCode(IsOrphanedUnit(unit), unit.par).Level0

\* the member Work after the body of unit u has been generated
emitBody(WorkVec, units, u) ==
  IF EmitsLevel0(units[u]) THEN Append(WorkVec, WrapperOf(u)) ELSE WorkVec

\* emitWorkerLoop: one work_match test per element of Work
emitWorkerLoop(WorkVec) == {WorkVec[i] : i \in 1..Len(WorkVec)}

\* the calls the master lanes make: a target region calls any of the
\* functions of the module from its sequential part
CallGraphs(units) ==
  LET Fns == {f \in 1..Len(units) : units[f].kind = "function"}
  IN {g \in [1..Len(units) -> SUBSET Fns] :
        \A u \in 1..Len(units) : units[u].kind = "function" => g[u] = {}}

GInit ==
  /\ AIdle /\ KIdle /\ LIdle /\ CIdle /\ SIdle /\ WIdle /\ FIdle /\ XIdle /\ HIdle /\ RIdle /\ NIdle /\ MIdle /\ QIdle /\ TIdle
  /\ \E n \in 1..MaxUnits :
     \E units \in [1..n -> UnitShapes] :
       /\ gUnits = units
       /\ gCalls \in CallGraphs(units)
  /\ gEmitted = << >>
  /\ gWork = << >>
  /\ gMatch = [u \in {} |-> {}]

Emitted == {gEmitted[i] : i \in 1..Len(gEmitted)}

\* emitTargetOutlinedFunction: the region's body, then its worker function
EmitTargetRegion(u) ==
  /\ u \notin Emitted
  /\ gUnits[u].kind = "target"
  /\ gEmitted' = Append(gEmitted, u)
  /\ gWork' = emitBody(gWork, gUnits, u)
  /\ gMatch' = [k \in DOMAIN gMatch \cup {u} |->
                  IF k = u THEN emitWorkerLoop(gWork') ELSE gMatch[k]]
  /\ UNCHANGED <<gUnits, gCalls>>
  /\ UNCHANGED outsideGen

\* the body of a device function is generated
EmitFunction(u) ==
  /\ u \notin Emitted
  /\ gUnits[u].kind = "function"
  /\ gEmitted' = Append(gEmitted, u)
  /\ gWork' = emitBody(gWork, gUnits, u)
  /\ UNCHANGED <<gUnits, gCalls, gMatch>>
  /\ UNCHANGED outsideGen

GNext ==
  \/ \E u \in 1..Len(gUnits) : EmitTargetRegion(u)
  \/ \E u \in 1..Len(gUnits) : EmitFunction(u)

SpecGen == GInit /\ [][GNext]_vars

\* ---------------------------------------------------------------------------
\* SpecNest: one lane through nested regions and called functions
\* ---------------------------------------------------------------------------

\* IsOrphaned is set to false by the constructor and assigned nowhere else
NestIsOrphaned == FALSE

\* ParallelNestingLevelRAII, destructor subtracting one whatever the region
ParallelNestingLevelRAII_Exit_ByOne(Level, IsSimd) == Level - 1

\* ParallelNestingLevelRAII, constructor
ParallelNestingLevelRAII_Enter(Level, IsSimd) ==
  Level + (IF IsSimd THEN 10 ELSE 1)

\* ParallelNestingLevelRAII, destructor
ParallelNestingLevelRAII_Exit(Level, IsSimd) ==
  Level - (IF IsSimd THEN 10 ELSE 1)

\* a call the emitted code makes
RuntimeCall(op, args) == [op |-> op, args |-> args]

\* the arguments CapturedVars of a construct
CapturedVars == <<"CapturedVars">>

\* what a lane runs in one of the branches of a construct: the calls up to
\* and including the call of the wrapper or outlined function it enters,
\* and the calls behind it
L0ParallelGen(WFn) ==
  [calls |-> <<RuntimeCall("__kmpc_kernel_prepare_parallel", <<WFn>>),
               RuntimeCall("syncCTAThreads", << >>),
               RuntimeCall("syncCTAThreads", << >>)>>,
   enters |-> "none",
   after |-> << >>]

\* first iteration of the convergent loop; IsActive is the result of the step
L1ParallelGen(WFn, IsActive) ==
  [calls |-> <<RuntimeCall("__kmpc_kernel_convergent_parallel",
                           <<"task_state", "is_final", "work_source">>)>>
             \o (IF IsActive THEN <<RuntimeCall(WFn, <<"work_source">>)>>
                 ELSE << >>),
   enters |-> IF IsActive THEN "WFn" ELSE "none",
   after |-> IF IsActive
             THEN <<RuntimeCall("__kmpc_kernel_end_convergent_parallel",
                                <<"task_state">>)>>
             ELSE << >>]

\* SeqGen of emitParallelCall calling the wrapper instead of Fn
SeqGen_ThroughWrapper(Fn, ThreadID, Vars) ==
  [calls |-> <<RuntimeCall("__kmpc_serialized_parallel", <<"RTLoc", ThreadID>>),
               RuntimeCall("WFn", <<ThreadID>>)>>,
   enters |-> "WFn",
   after |-> <<RuntimeCall("__kmpc_end_serialized_parallel",
                           <<"RTLoc", ThreadID>>)>>]

\* SeqGen of emitParallelCall
SeqGen(Fn, ThreadID, Vars) ==
  [calls |-> <<RuntimeCall("__kmpc_serialized_parallel", <<"RTLoc", ThreadID>>),
               RuntimeCall(Fn, <<"null", "null">> \o Vars)>>,
   enters |-> "Fn",
   after |-> <<RuntimeCall("__kmpc_end_serialized_parallel",
                           <<"RTLoc", ThreadID>>)>>]

\* first iteration of the convergent simd loop
L1SimdGen(WFn, IsActive) ==
  [calls |-> <<RuntimeCall("__kmpc_kernel_convergent_simd",
                           <<"task_state", "is_final", "work_source",
                             "lane_id", "num_lanes">>)>>
             \o (IF IsActive
                 THEN <<RuntimeCall(WFn, <<"work_source", "lane_id",
                                            "num_lanes">>)>>
                 ELSE << >>),
   enters |-> IF IsActive THEN "WFn" ELSE "none",
   after |-> IF IsActive
             THEN <<RuntimeCall("__kmpc_kernel_end_convergent_simd",
                                <<"task_state">>)>>
             ELSE << >>]

\* SeqGen of emitSimdCall: lane_id is initialised to 0 and num_lanes to 1
SimdSeqGen(Fn, Vars) ==
  [calls |-> <<RuntimeCall(Fn, <<"lane_id = 0", "num_lanes = 1">> \o Vars)>>,
   enters |-> "Fn",
   after |-> << >>]

\* emitSimdCall with the Level0 branch running the convergent loop
emitSimdCall_L1Everywhere(block, IsActive) ==
  IF block = "Sequential" THEN SimdSeqGen("Fn", CapturedVars)
  ELSE L1SimdGen("WFn", IsActive)

\* emitParallelCall: emitParallelismLevelCode(L0ParallelGen, L1ParallelGen,
\* SeqGen), the branch for one block
emitParallelCall(block, IsActive) ==
  IF block = "Level0" THEN L0ParallelGen("WFn")
  ELSE IF block = "Level1" THEN L1ParallelGen("WFn", IsActive)
  ELSE SeqGen("Fn", "ThreadID", CapturedVars)

\* emitSimdCall: emitParallelismLevelCode(SeqGen, L1SimdGen, SeqGen)
emitSimdCall(block, IsActive) ==
  IF block = "Level1" THEN L1SimdGen("WFn", IsActive)
  ELSE SimdSeqGen("Fn", CapturedVars)

\* createDataSharingParallelWrapper: the arguments the wrapper passes on,
\* resolved by the branch of its level dispatch
WrapperResolved(IsSimd, block) ==
  IF block = "Level1" THEN <<"warp-record">>
  ELSE IF block = "Level0" /\ ~IsSimd THEN <<"master-record">>
  ELSE <<"unresolved">>

WrapperCall(IsSimd, block) ==
  RuntimeCall("Fn", (IF IsSimd THEN <<"LaneID", "NumLanes">>
                     ELSE <<"null", "null">>)
                    \o WrapperResolved(IsSimd, block))

\* the regions whose outlined bodies lexically enclose the code the lane
\* runs: the frames down to the innermost called function
RECURSIVE LexicalFrames(_)
LexicalFrames(stack) ==
  IF stack = << >> THEN << >>
  ELSE IF Head(stack).kind = "function" THEN << >>
  ELSE <<Head(stack)>> \o LexicalFrames(Tail(stack))

\* the code the lane runs is lexically inside a simd region
InSimd(stack) ==
  \E i \in 1..Len(LexicalFrames(stack)) : LexicalFrames(stack)[i].kind = "simd"

nMasterID == getMasterThreadID(getInt32(nN), getInt32(KernelWarpSize))
nIsMaster == getInt32(nTid) = nMasterID

\* the level dispatch at a call site or in a wrapper, as run by the lane
NestDispatch(site, construct) ==
  LET code == emitParallelismLevelCode(NestIsOrphaned, nStatic)
  IN [site |-> site,
      construct |-> construct,
      blocks |-> EmittedBlocks(code),
      checks |-> CheckedBlocks(code),
      nesting |-> nStatic,
      insimd |-> InSimd(nStack),
      executed |-> RunLevelCode(code, getInt32(nTid), nMasterID, nLevel),
      master |-> nIsMaster,
      level |-> nLevel]

NoTrace == [construct |-> "none", path |-> "none", calls |-> << >>,
            done |-> FALSE]
NoPending == [simd |-> FALSE, after |-> << >>]

NInit ==
  /\ AIdle /\ KIdle /\ LIdle /\ CIdle /\ SIdle /\ WIdle /\ FIdle /\ XIdle /\ HIdle /\ RIdle /\ GIdle /\ MIdle /\ QIdle /\ TIdle
  /\ nN \in KernelWarpSize..MaxThreads
  /\ nTid \in {t \in 0..(nN - 1) :
                 KernelInitializerRole(getInt32(t), getInt32(nN),
                                       getInt32(KernelWarpSize)) # "parked"}
  /\ nLevel = 0
  /\ nStatic = 0
  /\ nStack = << >>
  /\ nPc = "code"
  /\ nPending = NoPending
  /\ nTrace = NoTrace
  /\ nLast = NoDispatch

\* the lane runs user code: the master the sequential part of the target
\* region, any lane the body of a region or function it is inside
NInUserCode ==
  /\ nPc = "code"
  /\ nStack # << >> \/ nIsMaster
  /\ Len(nStack) < MaxLevel

\* the lane goes on with the branch gen of a construct
NTake(construct, path, gen) ==
  /\ nTrace' = [construct |-> construct, path |-> path, calls |-> gen.calls,
                done |-> gen.enters = "none"]
  /\ nPc' = IF gen.enters = "none" THEN "code"
            ELSE IF gen.enters = "WFn" THEN "wrapper" ELSE "call_fn"
  /\ nPending' = IF gen.enters = "none" THEN NoPending
                 ELSE [simd |-> construct = "simd", after |-> gen.after]

\* emitParallelCall without if clause, or with an if clause that is true
NEncounterParallel ==
  /\ NInUserCode
  /\ LET d == NestDispatch("emitParallelCall", "parallel")
     IN /\ nLast' = d
        /\ d.executed # << >>
        /\ \E IsActive \in BOOLEAN :
             NTake("parallel", d.executed[1],
                   emitParallelCall(d.executed[1], IsActive))
  /\ UNCHANGED <<outsideNest, nN, nTid, nLevel, nStatic, nStack>>

\* emitParallelCall with an if clause that is false: emitOMPIfClause runs
\* SeqGen
NEncounterParallelIfFalse ==
  /\ NInUserCode
  /\ nLast' = [NestDispatch("emitOMPIfClause", "parallel")
                 EXCEPT !.blocks = {}, !.checks = {}, !.executed = << >>]
  /\ NTake("parallel", "if-false", SeqGen("Fn", "ThreadID", CapturedVars))
  /\ UNCHANGED <<outsideNest, nN, nTid, nLevel, nStatic, nStack>>

\* emitSimdCall
NEncounterSimd ==
  /\ NInUserCode
  /\ LET d == NestDispatch("emitSimdCall", "simd")
     IN /\ nLast' = d
        /\ d.executed # << >>
        /\ \E IsActive \in BOOLEAN :
             NTake("simd", d.executed[1], emitSimdCall(d.executed[1], IsActive))
  /\ UNCHANGED <<outsideNest, nN, nTid, nLevel, nStatic, nStack>>

\* emitWorkerLoop: a worker in the worker loop calls the wrapper the master
\* dispatched
NWorkerLoopInvoke ==
  /\ nPc = "code" /\ nStack = << >> /\ ~nIsMaster
  /\ nTrace' = [construct |-> "parallel", path |-> "worker-loop",
                calls |-> <<RuntimeCall("__kmpc_kernel_parallel", <<"work_fn">>),
                            RuntimeCall("WFn", <<"getMasterThreadID">>)>>,
                done |-> FALSE]
  /\ nPending' = [simd |-> FALSE,
                  after |-> <<RuntimeCall("__kmpc_kernel_end_parallel", << >>)>>]
  /\ nPc' = "wrapper"
  /\ UNCHANGED <<outsideNest, nN, nTid, nLevel, nStatic, nStack, nLast>>

\* createDataSharingParallelWrapper: the wrapper's level dispatch, then the
\* call of the outlined function
NWrapper ==
  /\ nPc = "wrapper"
  /\ LET d == NestDispatch("wrapper", IF nPending.simd THEN "simd" ELSE "parallel")
     IN /\ nLast' = d
        /\ d.executed # << >>
        /\ nTrace' = [nTrace EXCEPT
                        !.calls = Append(@, WrapperCall(nPending.simd,
                                                        d.executed[1]))]
  /\ nPc' = "call_fn"
  /\ UNCHANGED <<outsideNest, nN, nTid, nLevel, nStatic, nStack, nPending>>

\* entry of the outlined function: increaseParallelismLevel; its body was
\* generated inside the scope of a ParallelNestingLevelRAII
NEnterBody ==
  /\ nPc = "call_fn"
  /\ nLevel' = increaseParallelismLevel(nLevel, nPending.simd)
  /\ nStatic' = ParallelNestingLevelRAII_Enter(nStatic, nPending.simd)
  /\ nStack' = <<[kind |-> IF nPending.simd THEN "simd" ELSE "parallel",
                  own |-> nTrace, after |-> nPending.after,
                  static |-> nStatic, level |-> nLevel]>> \o nStack
  /\ nPc' = "code"
  /\ nPending' = NoPending
  /\ UNCHANGED <<outsideNest, nN, nTid, nTrace, nLast>>

\* end of the body: decreaseParallelismLevel, the outlined function returns
\* and the lane runs what the construct emitted behind the call; the
\* generator has left the scope of the ParallelNestingLevelRAII
NExitBody ==
  /\ nPc = "code" /\ nStack # << >>
  /\ Head(nStack).kind # "function"
  /\ nLevel' = decreaseParallelismLevel(nLevel, Head(nStack).kind = "simd")
  /\ nStatic' = ParallelNestingLevelRAII_Exit(nStatic, Head(nStack).kind = "simd")
  /\ nTrace' = [Head(nStack).own EXCEPT !.calls = @ \o Head(nStack).after,
                                       !.done = TRUE]
  /\ nStack' = Tail(nStack)
  /\ UNCHANGED <<outsideNest, nN, nTid, nPc, nPending, nLast>>

\* the lane calls a function of the module; the function's body was
\* generated on its own, with ParallelNestingLevel 0
NCallFunction ==
  /\ NInUserCode
  /\ nStack' = <<[kind |-> "function", own |-> NoTrace, after |-> << >>,
                  static |-> nStatic, level |-> nLevel]>> \o nStack
  /\ nStatic' = 0
  /\ UNCHANGED <<outsideNest, nN, nTid, nLevel, nPc, nPending, nTrace, nLast>>

\* the called function returns
NReturn ==
  /\ nPc = "code" /\ nStack # << >>
  /\ Head(nStack).kind = "function"
  /\ nStatic' = Head(nStack).static
  /\ nStack' = Tail(nStack)
  /\ UNCHANGED <<outsideNest, nN, nTid, nLevel, nPc, nPending, nTrace, nLast>>

NNext ==
  \/ NEncounterParallel
  \/ NEncounterParallelIfFalse
  \/ NEncounterSimd
  \/ NWorkerLoopInvoke
  \/ NWrapper
  \/ NEnterBody
  \/ NExitBody
  \/ NCallFunction
  \/ NReturn

SpecNest == NInit /\ [][NNext]_vars

(***************************************************************************)
(* SpecMask: the lanes of one warp that are active when a worker runs      *)
(* initializeDataSharing(IsMaster = false).  A 32-bit value is the set of  *)
(* its one bits.                                                           *)
(***************************************************************************)
\* lanes looked at: the MaxMaskLow lowest and the MaxMaskLow highest of a warp
MaxMaskLow == 3

MaskLanes ==
  {l \in 0..(Int32Width - 1) : l < MaxMaskLow \/ l >= Int32Width - MaxMaskLow}

\* values __kmpc_warp_active_thread_mask returns: the calling lane is active
ActiveMasks == (SUBSET MaskLanes) \ {{}}

\* getNVPTXThreadWarpID: tid & DS_Max_Worker_Warp_Size_Log2_Mask
getNVPTXThreadWarpID(tid) == tid % DS_Max_Worker_Warp_Size

\* popc.i: number of one bits
popc(bits) == Cardinality(bits)

\* shl i32 for a shift amount below the width: bits shifted out are lost
ShlBits(bits, amount) ==
  {b + amount : b \in {c \in bits : c + amount < Int32Width}}

\* Bld.CreateShl treated as if a shift by the width or more gave 0
CreateShl_Wrapping(bits, amount) == {ShlBits(bits, amount)}

\* Bld.CreateShl(Mask, ShNum): the values the instruction can yield.  A shift
\* amount equal to or larger than the width yields poison: any value.
CreateShl(bits, amount) ==
  IF amount < Int32Width THEN {ShlBits(bits, amount)} ELSE SUBSET MaskLanes

\* getNVPTXWarpActiveThreadID: popc(Mask << (32 - (threadID & 0x1f)))
getNVPTXWarpActiveThreadID(Mask, tid) ==
  {popc(Sh) : Sh \in CreateShl(Mask, Int32Width - getNVPTXThreadWarpID(tid))}

\* getNVPTXIsWarpActiveMaster: warp_active_thread_id == 0
getNVPTXIsWarpActiveMaster(ActiveID) == ActiveID = 0

MInit ==
  /\ mMask \in ActiveMasks
  /\ mPc = [l \in mMask |-> "entry"]
  /\ mActiveID = [l \in mMask |-> 0]
  /\ mRootInit = << >>
  /\ AIdle /\ CIdle /\ FIdle /\ GIdle /\ HIdle /\ KIdle /\ LIdle /\ NIdle /\ QIdle /\ TIdle
  /\ RIdle /\ SIdle /\ WIdle /\ XIdle

\* initializeDataSharing, !IsMaster: the lane computes is_warp_active_master
MActiveMaster(l) ==
  /\ mPc[l] = "entry"
  /\ \E ActiveID \in getNVPTXWarpActiveThreadID(mMask, l) :
       mActiveID' = [mActiveID EXCEPT ![l] = ActiveID]
  /\ mPc' = [mPc EXCEPT ![l] = "is_warp_active_master"]
  /\ UNCHANGED <<mMask, mRootInit>>
  /\ UNCHANGED outsideMask

\* CreateCondBr(IsWarpMaster, InitBB, EndBB)
MCondBr(l) ==
  /\ mPc[l] = "is_warp_active_master"
  /\ mPc' = [mPc EXCEPT ![l] =
               IF getNVPTXIsWarpActiveMaster(mActiveID[l])
               THEN "shared_data_init" ELSE "after_shared_data_init"]
  /\ UNCHANGED <<mMask, mActiveID, mRootInit>>
  /\ UNCHANGED outsideMask

\* the block shared_data_init: the lane writes the root slot of its warp
MSharedDataInit(l) ==
  /\ mPc[l] = "shared_data_init"
  /\ mRootInit' = Append(mRootInit, l)
  /\ mPc' = [mPc EXCEPT ![l] = "after_shared_data_init"]
  /\ UNCHANGED <<mMask, mActiveID>>
  /\ UNCHANGED outsideMask

MNext ==
  \/ \E l \in mMask : MActiveMaster(l)
  \/ \E l \in mMask : MCondBr(l)
  \/ \E l \in mMask : MSharedDataInit(l)

SpecMask == MInit /\ [][MNext]_vars

(***************************************************************************)
(* SpecSchedule: the loop directives of one function, each asked whether   *)
(* it gets the coalesced schedule and whether it needs a barrier.          *)
(***************************************************************************)
\* loop directives generated one after the other
MaxLoops == 2

\* OpenMPScheduleClauseKind
ScheduleKinds ==
  {"OMPC_SCHEDULE_static", "OMPC_SCHEDULE_dynamic", "OMPC_SCHEDULE_guided",
   "OMPC_SCHEDULE_auto", "OMPC_SCHEDULE_runtime", "OMPC_SCHEDULE_unknown"}

\* a loop directive: the kind of its schedule clause ("none": no clause),
\* whether the chunk size is the constant one, whether it has an ordered clause
LoopDirectives ==
  [schedule : (ScheduleKinds \ {"OMPC_SCHEDULE_unknown"}) \cup {"none"},
   ChunkSizeOne : BOOLEAN,
   ordered : BOOLEAN]

\* the schedule kind of a directive: OMPC_SCHEDULE_unknown without a clause
ScheduleKindOf(S) ==
  IF S.schedule = "none" THEN "OMPC_SCHEDULE_unknown" ELSE S.schedule

\* generateCoalescedSchedule without the test of the ordered flag
generateCoalescedSchedule_IgnoresOrdered(ScheduleKind, ChunkSizeOne, ordered) ==
  \/ ScheduleKind = "OMPC_SCHEDULE_unknown"
  \/ ScheduleKind = "OMPC_SCHEDULE_auto"
  \/ (ScheduleKind = "OMPC_SCHEDULE_static" /\ ChunkSizeOne)

\* CGOpenMPRuntimeNVPTX::generateCoalescedSchedule
generateCoalescedSchedule(ScheduleKind, ChunkSizeOne, ordered) ==
  ~ordered /\ (\/ ScheduleKind = "OMPC_SCHEDULE_unknown"
               \/ ScheduleKind = "OMPC_SCHEDULE_auto"
               \/ (ScheduleKind = "OMPC_SCHEDULE_static" /\ ChunkSizeOne))

\* CGOpenMPRuntimeNVPTX::requiresBarrier
requiresBarrier(S) ==
  LET Ordered == S.ordered
      ScheduleKind == ScheduleKindOf(S)
  IN  \/ Ordered
      \/ ScheduleKind = "OMPC_SCHEDULE_dynamic"
      \/ ScheduleKind = "OMPC_SCHEDULE_guided"

QInit ==
  /\ qLoop \in LoopDirectives
  /\ qCoalesced = << >>
  /\ qBarrier = << >>
  /\ qDone = 0
  /\ AIdle /\ CIdle /\ FIdle /\ GIdle /\ HIdle /\ KIdle /\ LIdle /\ MIdle /\ TIdle
  /\ NIdle /\ RIdle /\ SIdle /\ WIdle /\ XIdle

\* the loop's code generation asks generateCoalescedSchedule
QGenerateCoalescedSchedule ==
  /\ qLoop \in LoopDirectives
  /\ qCoalesced = << >>
  /\ qCoalesced' = <<generateCoalescedSchedule(ScheduleKindOf(qLoop),
                                              qLoop.ChunkSizeOne, qLoop.ordered)>>
  /\ UNCHANGED <<qLoop, qBarrier, qDone>>
  /\ UNCHANGED outsideSchedule

\* the loop's code generation asks requiresBarrier
QRequiresBarrier ==
  /\ qLoop \in LoopDirectives
  /\ qBarrier = << >>
  /\ qBarrier' = <<requiresBarrier(qLoop)>>
  /\ UNCHANGED <<qLoop, qCoalesced, qDone>>
  /\ UNCHANGED outsideSchedule

\* the next loop directive of the function is generated
QNextLoop ==
  /\ qCoalesced # << >>
  /\ qBarrier # << >>
  /\ qDone + 1 < MaxLoops
  /\ qDone' = qDone + 1
  /\ qLoop' \in LoopDirectives
  /\ qCoalesced' = << >>
  /\ qBarrier' = << >>
  /\ UNCHANGED outsideSchedule

QNext ==
  \/ QGenerateCoalescedSchedule
  \/ QRequiresBarrier
  \/ QNextLoop

SpecSchedule == QInit /\ [][QNext]_vars

(***************************************************************************)
(* SpecToolChains: one Compilation.  Device toolchains are added, and the  *)
(* client iterates the toolchains of one offload kind or asks for the      *)
(* single toolchain of a kind.                                             *)
(***************************************************************************)
\* calls of addOffloadDeviceToolChain on one Compilation
MaxToolChains == 3

\* const ToolChain * values handed to the Compilation
ToolChains == {"tc1", "tc2"}

\* Action::OffloadKind of an offloading device
OffloadKinds == {"OFK_Cuda", "OFK_OpenMP"}

nullptr == "nullptr"

\* SkipKinds that skips nothing
SkipKinds_None(TCs, I, Kind) == I

\* specific_offload_kind_iterator::SkipKinds, End being TCs.end()
RECURSIVE SkipKinds(_, _, _)
SkipKinds(TCs, I, Kind) ==
  IF I # Len(TCs) + 1 /\ TCs[I].second # Kind
  THEN SkipKinds(TCs, I + 1, Kind)
  ELSE I

\* getOffloadDeviceToolChains<Kind>(): the iterators begin and end of the range
getOffloadDeviceToolChains(TCs, Kind) ==
  [begin |-> SkipKinds(TCs, 1, Kind),
   end   |-> SkipKinds(TCs, Len(TCs) + 1, Kind)]

\* specific_offload_kind_iterator::operator++
Increment(TCs, I, Kind) == SkipKinds(TCs, I + 1, Kind)

\* getSingleOffloadDeviceToolChain<Kind>(): the values it can return.  With
\* more than one toolchain of the kind the assert fails where asserts are
\* compiled in, and the first one is returned where they are not.
getSingleOffloadDeviceToolChain(TCs, Kind) ==
  LET R == getOffloadDeviceToolChains(TCs, Kind)
  IN  IF R.begin # R.end
      THEN IF Increment(TCs, R.begin, Kind) = R.end
           THEN {TCs[R.begin].first}
           ELSE {"assertion failed", TCs[R.begin].first}
      ELSE {nullptr}

TInit ==
  /\ OrderedOffloadingToolchains = << >>
  /\ OffloadHostKinds = {}
  /\ tKind = "none"
  /\ tI = 0
  /\ tVisited = << >>
  /\ tSingle = << >>
  /\ tPc = "idle"
  /\ AIdle /\ CIdle /\ FIdle /\ GIdle /\ HIdle /\ KIdle /\ LIdle /\ MIdle
  /\ NIdle /\ QIdle /\ RIdle /\ SIdle /\ WIdle /\ XIdle

\* no range-based loop over the toolchains is running
TNotInLoop == tPc \in {"idle", "end", "single"}

\* Compilation::addOffloadDeviceToolChain
addOffloadDeviceToolChain(DeviceToolChain, OffloadKind) ==
  /\ TNotInLoop
  /\ Len(OrderedOffloadingToolchains) < MaxToolChains
  /\ OffloadHostKinds' = OffloadHostKinds \cup {OffloadKind}
  /\ OrderedOffloadingToolchains' =
       Append(OrderedOffloadingToolchains,
              [first |-> DeviceToolChain, second |-> OffloadKind])
  /\ tKind' = "none"
  /\ tI' = 0
  /\ tVisited' = << >>
  /\ tSingle' = << >>
  /\ tPc' = "idle"
  /\ UNCHANGED outsideToolChains

\* for (auto *TC : C.getOffloadDeviceToolChains<Kind>()): the loop starts
TBeginLoop(Kind) ==
  /\ TNotInLoop
  /\ tKind' = Kind
  /\ tI' = getOffloadDeviceToolChains(OrderedOffloadingToolchains, Kind).begin
  /\ tVisited' = << >>
  /\ tSingle' = << >>
  /\ tPc' = "loop"
  /\ UNCHANGED <<OrderedOffloadingToolchains, OffloadHostKinds>>
  /\ UNCHANGED outsideToolChains

\* one iteration of the loop: operator*, the body, operator++
TVisit ==
  /\ tPc = "loop"
  /\ tI # getOffloadDeviceToolChains(OrderedOffloadingToolchains, tKind).end
  /\ tVisited' = Append(tVisited, OrderedOffloadingToolchains[tI].first)
  /\ tI' = Increment(OrderedOffloadingToolchains, tI, tKind)
  /\ UNCHANGED <<OrderedOffloadingToolchains, OffloadHostKinds, tKind, tSingle,
                 tPc>>
  /\ UNCHANGED outsideToolChains

\* the iterator compares equal to end(): the loop is left
TEndLoop ==
  /\ tPc = "loop"
  /\ tI = getOffloadDeviceToolChains(OrderedOffloadingToolchains, tKind).end
  /\ tPc' = "end"
  /\ UNCHANGED <<OrderedOffloadingToolchains, OffloadHostKinds, tKind, tI,
                 tVisited, tSingle>>
  /\ UNCHANGED outsideToolChains

\* a call of getSingleOffloadDeviceToolChain<Kind>()
TGetSingle(Kind) ==
  /\ TNotInLoop
  /\ \E result \in getSingleOffloadDeviceToolChain(OrderedOffloadingToolchains,
                                                   Kind) :
       tSingle' = <<result>>
  /\ tKind' = Kind
  /\ tI' = 0
  /\ tVisited' = << >>
  /\ tPc' = "single"
  /\ UNCHANGED <<OrderedOffloadingToolchains, OffloadHostKinds>>
  /\ UNCHANGED outsideToolChains

TNext ==
  \/ \E tc \in ToolChains, k \in OffloadKinds : addOffloadDeviceToolChain(tc, k)
  \/ \E k \in OffloadKinds : TBeginLoop(k)
  \/ TVisit
  \/ TEndLoop
  \/ \E k \in OffloadKinds : TGetSingle(k)

SpecToolChains == TInit /\ [][TNext]_vars

(***************************************************************************)
(* Properties of the kernel launch (Spec, FairSpec)                        *)
(***************************************************************************)
AllExited == \A t \in Lanes : pc[t] = "exit"
MasterInDispatch == \E m \in Lanes : pc[m] \in {"wake", "drain"}
MasterAtDrain == \E m \in Lanes : pc[m] = "drain"
MasterExited == \E m \in Lanes : role[m] = "master" /\ pc[m] = "exit"
InRegion(t) == pc[t] \in {"execute", "running", "terminate"}

\* a lane that waited at a barrier forever would make this false from some
\* point on
NoLaneAtBarrier == \A t \in Lanes : pc[t] \notin BarrierPcs

C2_BarrierCount ==
  \A t \in Lanes :
     /\ (pc[t] = "exit" /\ role[t] \in {"worker", "master"})
           => barriers[t] = 2 * dispatched + 1
     /\ role[t] = "parked" => barriers[t] = 0

\* C2: with lanes that left the kernel not taking part in barriers, the
\* master and every worker cross exactly 2R+1 barriers for R dispatched
\* regions, no lane stays at a barrier forever, and all lanes reach the exit.
C2_AllLanesExitAfterTwoRPlusOneBarriers ==
  /\ []C2_BarrierCount
  /\ <>AllExited
  /\ []<>NoLaneAtBarrier

C2_Witness ==
  /\ AllExited
  /\ dispatched = 2
  /\ \E m \in Masters : barriers[m] = 5
  /\ Cardinality(Workers) >= 2
  /\ \A t \in Workers : barriers[t] = 5

C3_State ==
  /\ dispatched - completed \in {0, 1}
  /\ \A m \in Masters :
        /\ pc[m] = "wake" =>
              (barriers[m] = 2 * dispatched - 2 /\ completed = dispatched - 1)
        /\ pc[m] = "drain" =>
              (barriers[m] = 2 * dispatched - 1 /\ completed = dispatched - 1)
        /\ pc[m] \in {"sequential", "final"} =>
              (barriers[m] = 2 * dispatched /\ completed = dispatched)

C3_Step ==
  dispatched' # dispatched =>
     /\ dispatched' = dispatched + 1
     /\ completed = dispatched
     /\ WorkFn' \in Wrappers
     /\ \E m \in Masters : pc[m] = "sequential" /\ pc'[m] = "wake"

\* C3: a Level0 dispatch is: write the wrapper pointer, cross a barrier,
\* cross a second barrier; the master starts no dispatch before the second
\* barrier of the previous one, so at most one region is in flight.
C3_DispatchIsPrepareWakeDrain == []C3_State /\ [][C3_Step]_vars

C3_Witness ==
  \E m \in Masters :
     /\ pc[m] = "sequential"
     /\ dispatched = 2 /\ completed = 2
     /\ barriers[m] = 4

\* C4: a worker holds a work-function pointer of a dispatch only between the
\* master's two barriers of that dispatch, and it is the pointer the master
\* wrote for it; whenever the master is not between the two barriers every
\* worker that was activated has returned and called kernel_end_parallel.
C4_ReadAfterWriteAndCompletionBeforeResume ==
  /\ \A t \in Lanes :
        InRegion(t) =>
           /\ MasterAtDrain
           /\ work_fn[t] = WorkFn
           /\ WorkFn \in Wrappers
           /\ reads[t] = dispatched
  /\ ~MasterAtDrain =>
        \A t \in Lanes :
           /\ ~InRegion(t)
           /\ ended[t] = activated[t]
           /\ role[t] = "worker" => reads[t] = completed

C4_Witness ==
  /\ \E m \in Masters : pc[m] = "sequential" /\ completed = 2
  /\ \E t \in Workers : ended[t] = 2 /\ Len(invoked[t]) = 2
  /\ \E t \in Workers : ended[t] = 1 /\ activated[t] = 1 /\ reads[t] = 2

C5_State ==
  MasterExited =>
     /\ WorkFn = 0
     /\ \A t \in Lanes : pc[t] \in {"kernel_parallel", "exit"}

C5_Step ==
  \A t \in Lanes :
     /\ pc[t] = "exit" =>
           (pc'[t] = "exit" /\ barriers'[t] = barriers[t]
              /\ invoked'[t] = invoked[t])
     /\ (MasterExited /\ pc[t] = "kernel_parallel") =>
           (pc'[t] \in {"kernel_parallel", "exit"}
              /\ barriers'[t] = barriers[t] /\ invoked'[t] = invoked[t])

\* C5: once the master has called kernel_deinit and crossed its final
\* barrier, every worker reads the null pointer after that same barrier,
\* leaves the loop without running a region, and never waits or crosses a
\* barrier again.
C5_WorkersTerminateOnFinalBarrier == []C5_State /\ [][C5_Step]_vars

C5_Witness ==
  /\ MasterExited
  /\ dispatched = 1
  /\ \E t \in Workers : pc[t] = "exit" /\ barriers[t] = 3
  /\ \E t \in Workers : pc[t] = "kernel_parallel"

C6_Step ==
  \A t \in Lanes :
     /\ pc[t] = "execute" => pc'[t] \in {"execute", "running", "terminate"}
     /\ pc[t] = "running" => pc'[t] \in {"running", "terminate"}
     /\ pc[t] = "terminate" =>
           \/ pc'[t] = "terminate" /\ ended'[t] = ended[t]
           \/ pc'[t] = "barrier" /\ ended'[t] = ended[t] + 1
     /\ pc[t] = "barrier" =>
           \/ pc'[t] = "barrier"
           \/ pc'[t] = "await" /\ barriers'[t] = barriers[t] + 1
     /\ (pc[t] # "exit" /\ pc'[t] = "exit" /\ role[t] = "worker") =>
           pc[t] = "kernel_parallel"

\* C6: a worker that read a non-null pointer while active goes through
\* invoke, return, kernel_end_parallel, barrier in this order; it neither
\* returns to Await nor leaves the loop from inside a dispatched region.
C6_DispatchedRegionIsCompleted == [][C6_Step]_vars

C6_Witness ==
  \E t \in Workers :
     /\ pc[t] = "await"
     /\ Len(invoked[t]) = 2
     /\ ended[t] = 2
     /\ barriers[t] = 4

(***************************************************************************)
(* Properties of the thread-id arithmetic (SpecArith)                      *)
(***************************************************************************)
\* the kernel initializer has classified the lane
ARoleKnown == aPc = "role"
AMasterKnown == aPc \in {"master", "team", "role"}
ATeamKnown == aPc \in {"team", "role"}

\* C8 as stated, on launches with at least one full lane group: workers are
\* exactly the lanes below MasterThreadId, the lane MasterThreadId is the
\* master, every other lane is parked.
C8_WorkersAreLanesBelowMaster ==
  (ARoleKnown /\ aN >= aW) =>
     /\ (aRole = "worker") <=> (aT < ValueOf(aMaster))
     /\ (aRole = "master") <=> (aT = ValueOf(aMaster))
     /\ (aRole = "parked") <=> (aT > ValueOf(aMaster))

\* C8 amended: every lane takes exactly one role; for every block size
\* N >= W (also N not a multiple of W) the workers are the lanes below the
\* thread limit N - W, the lane MasterThreadId is the master, and every other
\* lane, the lanes of [N - W, MasterThreadId) included, is parked.
C8_RolesByThreadLimit ==
  (ARoleKnown /\ aN >= aW) =>
     /\ aRole \in {"worker", "master", "parked"}
     /\ (aRole = "worker") <=> (aT < aN - aW)
     /\ (aRole = "master") <=> (aT = aW * ((aN - 1) \div aW))
     /\ (aRole = "parked") <=>
           (aT >= aN - aW /\ aT # aW * ((aN - 1) \div aW))

\* a lane below MasterThreadId that is parked, in a block that is not a
\* multiple of the lane-group size
C8_Witness ==
  /\ ARoleKnown
  /\ aN = 33 /\ aW = 32 /\ aT = 5
  /\ ValueOf(aMaster) = 32
  /\ aRole = "parked"

\* C9: for every block size N >= 1 and power-of-two W, getMasterThreadID is
\* the first lane of the last lane group: a multiple of W with
\* N - W <= id <= N - 1 (33 -> 32, 64 -> 32, 128 -> 96, 1024 -> 992 for W = 32).
C9_MasterIsFirstLaneOfLastGroup ==
  AMasterKnown =>
     /\ IsSmall(aMaster)
     /\ ValueOf(aMaster) % aW = 0
     /\ aN - aW <= ValueOf(aMaster)
     /\ ValueOf(aMaster) <= aN - 1
     /\ (aW = 32 /\ aN = 33) => ValueOf(aMaster) = 32
     /\ (aW = 32 /\ aN = 64) => ValueOf(aMaster) = 32
     /\ (aW = 32 /\ aN = 128) => ValueOf(aMaster) = 96
     /\ (aW = 32 /\ aN = 1024) => ValueOf(aMaster) = 992

C9_Witness ==
  /\ aPc = "master"
  /\ aN = 1024 /\ aW = 32
  /\ ValueOf(aMaster) = 992

\* C10: for every worker lane t in [0, MasterThreadId) the team-relative id
\* tid & (MasterThreadId - 1) is t itself (t mod MasterThreadId).
C10_TeamIdOfWorkerIsItsLane ==
  (ATeamKnown /\ aN >= aW /\ aT < ValueOf(aMaster)) =>
     (IsSmall(aTeam) /\ ValueOf(aTeam) = aT % ValueOf(aMaster))

C7_State == (lPc = "code" /\ lStack = << >>) => ParallelismLevel = 0

C7_Step ==
  Len(lStack') < Len(lStack) => ParallelismLevel' = Head(lStack).saved

ThreeWayChoice(IsMaster, Level) ==
  IF IsMaster THEN <<"Level0">>
  ELSE IF Level = 1 THEN <<"Level1">>
  ELSE IF Level > 1 THEN <<"Sequential">>
  ELSE << >>

IsStepCall(c) == c.op = StepName
IsWrapperCall(c) == c.op = "wrapper"

\* the step calls, and the wrapper calls, a lane has made
StepsOf(l) == SelectSeq(cTrace[l], IsStepCall)
WrappersOf(l) == SelectSeq(cTrace[l], IsWrapperCall)

DrainDone == \A l \in cMask : cPc[l] = "do.end"

DrainIterationsOk(l, EndAfterEveryStep) ==
  LET tr == cTrace[l]
      n == Len(tr)
  IN /\ n >= 1 => tr[1].op = StepName
     /\ \A i \in 1..n :
           /\ tr[i].op = StepName =>
                 /\ tr[i].buffer = l
                 /\ i > 1 => tr[i - 1].op # "wrapper"
                 /\ (tr[i].active /\ i < n) =>
                       /\ tr[i + 1].op = "wrapper"
                       /\ tr[i + 1].source = tr[i].source
                 /\ (~tr[i].active /\ i < n) =>
                       tr[i + 1].op =
                          (IF EndAfterEveryStep THEN EndStepName ELSE StepName)
           /\ tr[i].op = "wrapper" =>
                 /\ i > 1 /\ tr[i - 1].op = StepName /\ tr[i - 1].active
                 /\ i < n => tr[i + 1].op = EndStepName
           /\ tr[i].op = EndStepName =>
                 /\ tr[i].buffer = l
                 /\ i > 1
                 /\ IF EndAfterEveryStep
                    THEN tr[i - 1].op \in {"wrapper", StepName}
                    ELSE tr[i - 1].op = "wrapper"
                 /\ i < n => tr[i + 1].op = StepName
     /\ cPc[l] \in {"do.cond", "do.end"} =>
           /\ n >= 1
           /\ tr[n].op = (IF EndAfterEveryStep \/ StepsOf(l)[Len(StepsOf(l))].active
                          THEN EndStepName ELSE StepName)
     /\ cPc[l] = "do.body.execute" => (n >= 1 /\ tr[n].op = StepName)
     /\ cPc[l] = "end.step" => (n >= 1 /\ tr[n].op = "wrapper")

\* the loop is entered once at least and left exactly when is_final is 1
\* after an iteration
DrainLoopExitOk(l) ==
  LET st == StepsOf(l)
  IN /\ cPc[l] = "do.end" => (Len(st) >= 1 /\ st[Len(st)].final = 1)
     /\ \A i \in 1..(Len(st) - 1) : st[i].final # 1
     /\ (cPc[l] = "do.body" /\ Len(st) >= 1) => st[Len(st)].final # 1

\* C13 as stated: every iteration is a step call, the wrapper if and only
\* if the step selected the lane (with the returned source), and one
\* end-step call with the same buffer; at least one iteration; exit exactly
\* on is-final = 1.
C13_EveryIterationEndsWithEndStep ==
  \A l \in cMask : DrainIterationsOk(l, TRUE) /\ DrainLoopExitOk(l)

\* C13 amended: as above, but the end-step call is made if and only if the
\* wrapper was invoked in that iteration; an iteration whose step did not
\* select the lane consists of the step call alone.
C13_EndStepOnlyAfterWrapper ==
  \A l \in cMask : DrainIterationsOk(l, FALSE) /\ DrainLoopExitOk(l)

\* the group has drained: one lane was never selected and made step calls
\* only, another ran the wrapper for a request that is not its own
C13_Witness ==
  /\ DrainDone
  /\ \E l \in cMask :
        /\ Len(StepsOf(l)) >= 2
        /\ \A i \in 1..Len(StepsOf(l)) : ~StepsOf(l)[i].active
        /\ Len(cTrace[l]) = Len(StepsOf(l))
  /\ \E l \in cMask :
        \E i \in 1..Len(WrappersOf(l)) : WrappersOf(l)[i].source # l

(***************************************************************************)
(* Properties of the data sharing of a context (SpecShare)                 *)
(***************************************************************************)
Planned == sPc \in {"planned", "shared", "called", "wrapper-crashed"}
WrapperCalled == sPc = "called"
\* descriptors of the context that have the identity c
DescriptorsOf(c) ==
  {i \in 1..Len(Info.CapturesValues) : Info.CapturesValues[i].first = c}
ArgPositions == 1..Len(sArgs.args)

\* what the share helper left for descriptor i at Level0 and what the
\* wrapper passes for it are the same thing
RoundTrip(i, arg) ==
  LET capture == Info.CapturesValues[i]
  IN IF capture.second = "DST_Ref"
       THEN /\ sFrame[i][0] = OrigAddress(capture.first, 0)
            /\ arg.value = sFrame[i][0]
     ELSE IF capture.second = "DST_Cast"
       THEN /\ sFrame[i][0] = Pointee(capture.first, 0)
            /\ sNewAddr[i][0] = FieldAddress(0, i, 0)
            /\ arg.value = sNewAddr[i][0]
     ELSE arg.value = sNewAddr[i][0]

\* C14: at Level0, for every capture of the region whose wrapper was called,
\* the argument the wrapper passes to the outlined function is what the share
\* helper stored or handed back for the descriptor of that capture: the
\* shared address (DST_Val), the original pointer (DST_Ref), the shared
\* address at which the copy of the pointee lies (DST_Cast).
C14_WrapperReadsBackWhatWasShared ==
  (WrapperCalled /\ sLevel = 0) =>
     \A k \in ArgPositions :
        \A i \in DescriptorsOf(sArgs.args[k].capture) :
           RoundTrip(i, sArgs.args[k])

\* a region that lists the context's captures in another order than the
\* descriptors: its first capture is a shared reference held by field 2, its
\* second a cast pointer held by field 1
C14_Witness ==
  /\ WrapperCalled /\ sLevel = 0
  /\ Len(sArgs.args) = 2
  /\ DescriptorsOf(sArgs.args[1].capture) = {2}
  /\ DescriptorsOf(sArgs.args[2].capture) = {1}
  /\ Info.CapturesValues[2].second = "DST_Ref"
  /\ Info.CapturesValues[1].second = "DST_Cast"
  /\ sArgs.args[1].value = OrigAddress(sArgs.args[1].capture, 0)

\* the slot of the frame the wrapper addresses for a request
SourceSlot == IF sLevel = 0 THEN 0 ELSE sArgs.source

\* the type of the value resolved from field i
ResolvedType(i) ==
  IF Info.CapturesValues[i].second = "DST_Ref" THEN Info.MasterRecordType[i]
  ELSE getPointerType(Info.MasterRecordType[i])

\* C15: for every capture of the region whose wrapper was called, the
\* argument comes from the field of the descriptor with the capture's
\* identity: the stored pointer is loaded for DST_Ref, the field address is
\* taken otherwise, in the master frame at Level0 and in slot
\* [field][source lane] of the warp frame at Level1, and the type used is
\* that of this field.
C15_WrapperResolvesFromMatchingField ==
  WrapperCalled =>
     \A k \in ArgPositions :
        \A i \in DescriptorsOf(sArgs.args[k].capture) :
           LET arg == sArgs.args[k]
           IN /\ arg.field = i
              /\ arg.loaded = (Info.CapturesValues[i].second = "DST_Ref")
              /\ arg.value = IF arg.loaded THEN sFrame[i][SourceSlot]
                             ELSE FieldAddress(sLevel, i, SourceSlot)
              /\ arg.type = ResolvedType(i)

\* identities the regions of the context capture in a supported way
SupportedCaptures ==
  {c \in Identities :
     /\ \E r \in 1..Len(sRegions) : \E k \in 1..Len(sRegions[r]) : sRegions[r][k] = c
     /\ ~SkippedCapture(c, sDecls)}
\* regions of the context that capture the identity
RegionsCapturing(c) ==
  {r \in 1..Len(sRegions) : \E k \in 1..Len(sRegions[r]) : sRegions[r][k] = c}

\* C16: after planning, every supported identity captured by some region of
\* the context has exactly one descriptor, there is no other descriptor, and
\* the list is as long as there are distinct supported captures.
C16_EachIdentityHasOneDescriptor ==
  Planned =>
     /\ \A c \in SupportedCaptures : Cardinality(DescriptorsOf(c)) = 1
     /\ \A i \in 1..Len(Info.CapturesValues) :
           Info.CapturesValues[i].first \in SupportedCaptures
     /\ Len(Info.CapturesValues) = Cardinality(SupportedCaptures)

\* a variable captured by three regions of the context, and 'this' captured
\* by none: one descriptor
C16_Witness ==
  /\ Planned
  /\ \E c \in VarDecls :
        /\ Cardinality(RegionsCapturing(c)) = 3
        /\ Len(Info.CapturesValues) = 1
        /\ Info.CapturesValues[1].first = c

\* types a field made for the identity can have
FieldTypesOf(c) == {ExprType(c), getPointerType(ExprType(c))}

\* C17: the two records of a planned context have one field per descriptor,
\* and field i of each of them is the field of descriptor i.
C17_BothLayoutsFollowTheDescriptors ==
  Planned =>
     /\ Len(Info.MasterRecordType) = Len(Info.CapturesValues)
     /\ Len(Info.WorkerWarpRecordType) = Len(Info.CapturesValues)
     /\ \A i \in 1..Len(Info.CapturesValues) :
           /\ i \in DOMAIN Info.MasterRecordType
           /\ i \in DOMAIN Info.WorkerWarpRecordType
           /\ Info.MasterRecordType[i] \in FieldTypesOf(Info.CapturesValues[i].first)
           /\ Info.WorkerWarpRecordType[i].elem
                 \in FieldTypesOf(Info.CapturesValues[i].first)

\* three descriptors, in both records three fields
C17_Witness ==
  /\ Planned
  /\ Len(Info.CapturesValues) = 3
  /\ Len(Info.MasterRecordType) = 3
  /\ Len(Info.WorkerWarpRecordType) = 3
  /\ \E i \in 1..3 : Info.CapturesValues[i].second = "DST_Ref"

\* C18: the master field of a descriptor is a pointer to the capture's type
\* when the descriptor is DST_Ref and the capture's type otherwise; the warp
\* field is an array of 32 elements of the master field's type.
C18_FieldTypesFollowTheSharingType ==
  Planned =>
     \A i \in 1..Len(Info.CapturesValues) :
        LET capture == Info.CapturesValues[i]
            T == ExprType(capture.first)
        IN /\ i \in DOMAIN Info.MasterRecordType
           /\ i \in DOMAIN Info.WorkerWarpRecordType
           /\ (Info.MasterRecordType[i] = T \o "*") <=> (capture.second = "DST_Ref")
           /\ capture.second # "DST_Ref" => Info.MasterRecordType[i] = T
           /\ Info.WorkerWarpRecordType[i] =
                 [elem |-> Info.MasterRecordType[i], size |-> 32]

\* one region capturing x by address and y as a reference: descriptors
\* [(x, DST_Val), (y, DST_Ref)], records {int; double*} and
\* {int[32]; double*[32]}
C18_Witness ==
  /\ Planned
  /\ sRegions = << <<"x", "y">> >>
  /\ Info.CapturesValues =
        << [first |-> "x", second |-> "DST_Val"],
           [first |-> "y", second |-> "DST_Ref"] >>
  /\ Info.MasterRecordType = <<"int", "double*">>
  /\ Info.WorkerWarpRecordType =
        << [elem |-> "int", size |-> 32], [elem |-> "double*", size |-> 32] >>

\* a region of the context has a VLA or by-copy capture
HasUnsupportedCapture ==
  \E r \in 1..Len(sRegions) : \E k \in 1..Len(sRegions[r]) :
     SkippedCapture(sRegions[r][k], sDecls)
PlanningEnded == sPc # "start"
NothingProduced ==
  /\ Info.CapturesValues = << >>
  /\ Info.MasterRecordType = << >>
  /\ Info.WorkerWarpRecordType = << >>
  /\ sFrame = << >>
  /\ sArgs = NoArgs

\* C19: when a region of the context has a capture of an unsupported kind,
\* planning ends in the fatal outcome, and neither descriptors nor layouts
\* nor sharing code exist for the context.
C19_UnsupportedCaptureIsFatal ==
  (HasUnsupportedCapture /\ PlanningEnded) =>
     (sPc = "planning-crashed" /\ NothingProduced)

\* C20: registering the first parallel/simd directive plans the context,
\* whichever kind of declaration it is: planning never ends in the fatal
\* outcome, and the context has its entry built from the body.
C20_PlanningSucceedsForBothContextKinds ==
  PlanningEnded =>
     /\ sPc # "planning-crashed"
     /\ Info = createDataSharingInfo(sRegions, sDecls)

(***************************************************************************)
(* Properties of the planner's walk (SpecWalk)                             *)
(***************************************************************************)
WalkDone == WorkList = << >>
IsProperPrefix(q, p) == Len(q) < Len(p) /\ SubSeq(p, 1, Len(q)) = q
\* parallel/simd directives of the body not inside another one
DirectRegions ==
  {p \in Paths(wBody) :
     /\ IsRegion(At(wBody, p))
     /\ \A q \in Paths(wBody) : IsProperPrefix(q, p) => ~IsRegion(At(wBody, q))}
Recorded == {wCapturedStmts[i] : i \in 1..Len(wCapturedStmts)}

\* C21: the walk records only parallel/simd directives that are not inside
\* another parallel/simd directive, each at most once, and when it ends it
\* has recorded every one of them, those below ordinary statements and below
\* other directives included.
C21_WalkRecordsDirectlyEnclosedRegions ==
  /\ Recorded \subseteq DirectRegions
  /\ Cardinality(Recorded) = Len(wCapturedStmts)
  /\ WalkDone => Recorded = DirectRegions

\* a region below another directive is recorded, the region inside it is not
C21_Witness ==
  /\ WalkDone
  /\ \E p \in Recorded :
        /\ \E q \in Paths(wBody) : IsProperPrefix(q, p) /\ At(wBody, q).kind = "directive"
        /\ \E r \in Paths(wBody) : IsProperPrefix(p, r) /\ IsRegion(At(wBody, r))

(***************************************************************************)
(* Properties of one invocation of a function with data sharing            *)
(* (SpecInvoke)                                                            *)
(***************************************************************************)
HelperReturned == fPc \in {"body", "return", "done"} /\ fRan # << >>
CallsOf(op) == {k \in 1..Len(fCalls) : fCalls[k].op = op}
NonReferences == {i \in 1..Len(fCaptures) : fCaptures[i] # "DST_Ref"}

\* C22: what the helper allocates follows the block of the level dispatch
\* it ran and nothing else: in Level0 one acquire with the size of the
\* master record and default size 4, addresses of the master record's
\* fields; in Level1 one acquire with the size of the warp record and default
\* size 128, addresses [field][lane in warp]; in Sequential no acquire, and
\* the original address for every descriptor that is no reference.
C22_AllocationFollowsTheLevel ==
  HelperReturned =>
     /\ fRan[1] = "Level0" =>
           /\ Cardinality(CallsOf("begin")) = 1
           /\ \A k \in CallsOf("begin") :
                 fCalls[k].size = "MasterRecordType" /\ fCalls[k].default = 4
           /\ \A i \in NonReferences :
                 fNewAddr[i] = [tag |-> "master", id |-> "", field |-> i, lane |-> 0]
     /\ fRan[1] = "Level1" =>
           /\ Cardinality(CallsOf("begin")) = 1
           /\ \A k \in CallsOf("begin") :
                 fCalls[k].size = "WorkerWarpRecordType" /\ fCalls[k].default = 128
           /\ \A i \in NonReferences :
                 fNewAddr[i] = [tag |-> "warp", id |-> "", field |-> i, lane |-> fLane]
     /\ fRan[1] = "Sequential" =>
           /\ CallsOf("begin") = {}
           /\ \A i \in NonReferences :
                 fNewAddr[i] = [tag |-> "orig", id |-> "", field |-> i, lane |-> fLane]

\* a lane other than the first of its warp took the Level1 block for a
\* context with a reference and a non-reference descriptor
C22_Witness ==
  /\ HelperReturned
  /\ fRan = <<"Level1">>
  /\ fLane > 0
  /\ NonReferences # {}
  /\ \E i \in 1..Len(fCaptures) : fCaptures[i] = "DST_Ref"
  /\ Cardinality(CallsOf("begin")) = 1

\* C23: a lane that has left the function made as many release calls as
\* acquire calls, at most one of each, and every release call was handed
\* saved cells that an acquire call of this invocation filled.
C23_AcquireAndReleaseArePaired ==
  fPc = "done" =>
     /\ Cardinality(CallsOf("end")) = Cardinality(CallsOf("begin"))
     /\ Cardinality(CallsOf("end")) <= 1
     /\ \A k \in CallsOf("end") :
           /\ fCalls[k].saved
           /\ \E j \in CallsOf("begin") : j < k

(***************************************************************************)
(* Root data-sharing initialization of a kernel launch                     *)
(***************************************************************************)
\* lanes that may be inside a function with a share helper, and so may call
\* __kmpc_data_sharing_environment_begin: the master from the block .master
\* on (the helper call of the entry function follows the initializer call),
\* a worker while the wrapper it was handed runs
MayCallBegin(t) ==
  \/ role[t] = "master" /\ pc[t] \in {"kernel_init", "sequential"}
  \/ role[t] = "worker" /\ pc[t] = "running"

\* C25: in a kernel launch the master pool is initialized at most once and
\* only by the master lane; once every lane is through the kernel
\* initializer it has been initialized exactly once; and whenever a lane is
\* at a point where it may call data_sharing_environment_begin, the
\* initialization has already been made.
C25_RootInitOnceByMasterBeforeBegin ==
  /\ Len(rootInit) <= 1
  /\ \A i \in 1..Len(rootInit) : role[rootInit[i]] = "master"
  /\ (NumThreads > 0 /\ \A t \in Lanes : pc[t] # "entry") => Len(rootInit) = 1
  /\ \A t \in Lanes : MayCallBegin(t) => Len(rootInit) = 1

\* a worker runs a dispatched wrapper and the master pool was initialized by
\* the master
C25_Witness ==
  /\ NumThreads > KernelWarpSize
  /\ \E t \in Lanes : role[t] = "worker" /\ pc[t] = "running"
  /\ Len(rootInit) = 1
  /\ role[rootInit[1]] = "master"

(***************************************************************************)
(* One iteration of the worker loop                                        *)
(***************************************************************************)
\* the step of lane t out of .execute.parallel: the chain of work_match
\* tests and, on a match, the call of the matched wrapper
LeavesExecute(t) == pc[t] = "execute" /\ pc'[t] # "execute"

\* the step of lane t that observes the work-function cell
ObservesWorkFn(t) == pc[t] = "kernel_parallel" /\ pc'[t] # "kernel_parallel"

C26_Step ==
  \A t \in Lanes :
     /\ LeavesExecute(t) =>
           /\ work_fn[t] # 0 /\ exec_status[t]
           /\ invoked'[t] = Append(invoked[t], work_fn[t])
     /\ (ObservesWorkFn(t) /\ work_fn'[t] = 0) =>
           /\ invoked'[t] = invoked[t]
           /\ pc'[t] = "exit"

\* C26: an active worker that observed a non-null work-function pointer
\* calls the wrapper the pointer names, once, in that iteration (the call's
\* argument is getMasterThreadID); a worker that observed the null pointer
\* calls nothing and leaves the loop.
C26_ActiveWorkerInvokesTheDispatchedWrapper == [][C26_Step]_vars

(***************************************************************************)
(* Properties of the accesses to block-shared state (SpecAccess)           *)
(***************************************************************************)
\* C27: every load and store of the level counter a lane makes addresses the
\* lane's own entry of the parallelism-level array, and only the master lane
\* writes the work-function cell.
C27_LanesTouchOnlyTheirOwnState ==
  /\ \A a \in xTouched : a.loc = LevelEntry(xTid)
  /\ \A w \in xWriters : getInt32(w) = xMasterID

(***************************************************************************)
(* Properties of the finalization (SpecFinal)                              *)
(***************************************************************************)
Finalized == hPc \in {"running", "returned"}

\* the values finalization redirects: the original addresses of the
\* captures that are not shared by reference
ReplacedOriginals ==
  {OriginalValOf(hVars[i]) : i \in {j \in 1..Len(hVars) : hVars[j].kind # "load"}}

\* no instruction but the helper call uses a replaced original address
OnlyHelperUsesOriginals ==
  \A i \in 1..Len(hFn) :
     (\E R \in ReplacedOriginals : Uses(hFn[i], R)) => hFn[i].op = "call_helper"

C29_RegistrationIsIdempotent ==
  /\ rRegistered # {} => rMap = rFirst
  /\ (rRegistered # {} /\ rPc = "codegen")
       => rMap = createDataSharingInfo(rRegions, rDecls)
  /\ rHelpers <= 1
  /\ rHelpers = 1 <=> rInitializationFunction # "none"

\* three directives have been registered and two emitted, there is something
\* to share and the one helper exists
C29_Witness ==
  /\ Cardinality(rRegistered) >= 3
  /\ Cardinality(rCalled) >= 2
  /\ Len(rMap.CapturesValues) >= 2
  /\ Len(rMap.MasterRecordType) >= 2
  /\ rHelpers = 1

(***************************************************************************)
(* Properties of the generation order (SpecGen)                            *)
(***************************************************************************)
\* wrappers the master of kernel k can pass to kernel_prepare_parallel: the
\* one of the region's own Level0 dispatch and those of the Level0
\* dispatches in the functions the master calls
Dispatchable(k) ==
  {WrapperOf(u) : u \in {v \in {k} \cup gCalls[k] : EmitsLevel0(gUnits[v])}}

\* every unit of the module has been generated
ModuleDone == Len(gEmitted) = Len(gUnits)

\* C31: once the module is generated, every wrapper the master of a kernel
\* can pass to kernel_prepare_parallel is among the work_match tests of that
\* kernel's worker loop, whatever the order of generation was.
C31_DispatchedWrappersAreMatched ==
  ModuleDone =>
    \A k \in DOMAIN gMatch : Dispatchable(k) \subseteq gMatch[k]

(***************************************************************************)
(* Properties of nested regions and called functions (SpecNest)            *)
(***************************************************************************)
\* the runtime check emitParallelismLevelCode puts in front of a block
GuardHolds(block, IsMaster, Level) ==
  IF block = "Level0" THEN IsMaster
  ELSE IF block = "Level1" THEN Level = 1
  ELSE Level > 1

\* C32: a lane that runs a block of the level dispatch of a construct whose
\* runtime check was left out satisfies that check: it is the master for
\* Level0, its counter is 1 for Level1 and above 1 for Sequential.
C32_OmittedGuardsHold ==
  (nLast.site \in {"emitParallelCall", "emitSimdCall"}) =>
     \A i \in 1..Len(nLast.executed) :
        nLast.executed[i] \notin nLast.checks =>
           GuardHolds(nLast.executed[i], nLast.master, nLast.level)

\* calls that hand work to other lanes or wait for them
IsDispatchCall(c) ==
  c.op \in {"__kmpc_kernel_prepare_parallel", "syncCTAThreads", "WFn",
            "__kmpc_kernel_convergent_parallel",
            "__kmpc_kernel_convergent_simd"}

\* C33: on the Sequential path of a parallel construct, and at every level
\* when its if clause is false, the lane calls serialized_parallel(loc, tid),
\* then the outlined function itself with the captured arguments, then
\* end_serialized_parallel with the same loc and tid; it calls no wrapper,
\* writes no work pointer and crosses no barrier on that path.
C33_SerialPathCallsTheOutlinedFunction ==
  (nTrace.construct = "parallel" /\ nTrace.path \in {"Sequential", "if-false"}) =>
     LET c == nTrace.calls
     IN /\ Len(c) = IF nTrace.done THEN 3 ELSE 2
        /\ c[1].op = "__kmpc_serialized_parallel"
        /\ c[1].args = <<"RTLoc", "ThreadID">>
        /\ c[2] = RuntimeCall("Fn", <<"null", "null", "CapturedVars">>)
        /\ nTrace.done => /\ c[3].op = "__kmpc_end_serialized_parallel"
                          /\ c[3].args = c[1].args
        /\ \A i \in 1..Len(c) : ~IsDispatchCall(c[i])

\* the master has run a region with a false if clause by itself, from the
\* sequential part of the target region
C33_Witness ==
  /\ nTrace.done
  /\ nTrace.construct = "parallel"
  /\ nTrace.path = "if-false"
  /\ nIsMaster
  /\ nStack = << >>
  /\ nLevel = 0

\* C34: a simd construct goes through the convergent simd step and the
\* wrapper only in the Level1 block; in the Level0 and Sequential blocks the
\* lane calls the outlined function itself, once, with lane_id 0,
\* num_lanes 1 and the captured arguments.  The simd wrapper is entered
\* from the Level1 block only and resolves its arguments from the warp
\* record.
C34_SimdUsesWrapperAtLevel1Only ==
  /\ nTrace.construct = "simd" =>
       LET c == nTrace.calls
       IN IF nTrace.path = "Level1"
          THEN /\ c[1].op = "__kmpc_kernel_convergent_simd"
               /\ Len(c) > 1 =>
                    /\ c[2] = RuntimeCall("WFn", <<"work_source", "lane_id",
                                                   "num_lanes">>)
                    /\ Len(c) > 2 =>
                         c[3] = RuntimeCall("Fn", <<"LaneID", "NumLanes",
                                                    "warp-record">>)
          ELSE /\ nTrace.path \in {"Level0", "Sequential"}
               /\ c = <<RuntimeCall("Fn", <<"lane_id = 0", "num_lanes = 1",
                                            "CapturedVars">>)>>
  /\ (nLast.site = "wrapper" /\ nLast.construct = "simd") =>
        nLast.executed = <<"Level1">>

\* the master has run a simd region of the sequential part by itself
C34_Witness ==
  /\ nTrace.done
  /\ nTrace.construct = "simd"
  /\ nTrace.path = "Level0"
  /\ nIsMaster
  /\ nLast.site = "emitSimdCall"

\* ParallelNestingLevel as the regions lexically around the code give it
RECURSIVE NestingOf(_)
NestingOf(frames) ==
  IF frames = << >> THEN 0
  ELSE (IF Head(frames).kind = "simd" THEN 10 ELSE 1) + NestingOf(Tail(frames))

\* the regions entered lexically inside a simd region
RECURSIVE InsideSimd(_)
InsideSimd(frames) ==
  IF frames = << >> THEN << >>
  ELSE IF InSimd(Tail(frames)) THEN <<Head(frames)>> \o InsideSimd(Tail(frames))
  ELSE InsideSimd(Tail(frames))

\* C35: a parallel or simd construct lexically inside a simd region has
\* static nesting depth >= 10, so only its Sequential block is emitted, and
\* the lane that reaches it has a counter >= 10: it runs the Sequential
\* block, dispatches nothing to other lanes and enters no convergent loop.
\* The static counter is, during and after the outlining of any region,
\* what the regions lexically around the code make it.
C35_InsideSimdEverythingIsSequential ==
  /\ nStatic = NestingOf(LexicalFrames(nStack))
  /\ (nLast.site \in {"emitParallelCall", "emitSimdCall"} /\ nLast.insimd) =>
        /\ nLast.nesting >= 10
        /\ nLast.blocks = {"Sequential"}
        /\ nLast.executed = <<"Sequential">>
        /\ nLast.level >= 10
  /\ \A i \in 1..Len(InsideSimd(LexicalFrames(nStack))) :
        LET f == InsideSimd(LexicalFrames(nStack))[i]
        IN /\ f.own.path \in {"Sequential", "if-false"}
           /\ \A k \in 1..Len(f.own.calls) : ~IsDispatchCall(f.own.calls[k])

\* a worker inside a simd region of a parallel region runs the body of a
\* parallel region nested in the simd region
C35_Witness ==
  /\ ~nIsMaster
  /\ Len(nStack) = 3
  /\ nStack[1].kind = "parallel"
  /\ nStack[2].kind = "simd"
  /\ nStack[3].kind = "parallel"
  /\ nStack[1].own.path = "Sequential"
  /\ nLast.site = "emitParallelCall"
  /\ nLast.insimd
  /\ nLevel = 12

(***************************************************************************)
(* Properties of the worker loop for unmatched and inactive workers (Spec) *)
(***************************************************************************)
\* blocks of the worker loop from which a worker goes on to the barrier of
\* .barrier.parallel without waiting for another lane
OnTheWayToTheBarrier ==
  {"kernel_parallel", "execute", "running", "terminate", "barrier"}

\* while the master waits at the drain barrier the work-function cell is
\* not null and every worker that has not left is on its way to the closing
\* barrier of the region or at it; a worker has ended every activation but
\* the one it is in
C36_State ==
  /\ (\E m \in Lanes : pc[m] = "drain") =>
        /\ WorkFn # 0
        /\ \A t \in Workers : pc[t] \in OnTheWayToTheBarrier
  /\ \A t \in Workers :
        ended[t] + (IF pc[t] \in {"execute", "running", "terminate"} THEN 1 ELSE 0)
          = activated[t]

\* one step of a worker through the loop
C36_Step ==
  \A t \in Lanes :
     /\ (pc[t] = "execute" /\ work_fn[t] \notin Work /\ pc'[t] # pc[t]) =>
           /\ work_fn[t] # 0
           /\ invoked'[t] = invoked[t]
           /\ ended'[t] = ended[t]
           /\ pc'[t] = "terminate"
     /\ (pc[t] = "terminate" /\ pc'[t] # pc[t]) =>
           /\ ended'[t] = ended[t] + 1
           /\ invoked'[t] = invoked[t]
           /\ pc'[t] = "barrier"
     /\ (pc[t] = "kernel_parallel" /\ pc'[t] # pc[t]
           /\ work_fn'[t] # 0 /\ ~exec_status'[t]) =>
           /\ invoked'[t] = invoked[t]
           /\ ended'[t] = ended[t]
           /\ pc'[t] = "barrier"
     /\ (pc[t] = "barrier" /\ pc'[t] # pc[t]) =>
           /\ pc'[t] = "await"
           /\ \A m \in Lanes : pc[m] = "drain" => pc'[m] = "sequential"

\* C36: an active worker whose work_fn is non-null and matches no entry of
\* Work calls no function, calls kernel_end_parallel once and goes to the
\* barrier after the region; an inactive worker calls neither a function nor
\* kernel_end_parallel and goes to the same barrier; the master waiting at
\* the drain barrier is released together with them.
C36_UnmatchedAndInactiveWorkersReachTheBarrier ==
  []C36_State /\ [][C36_Step]_vars

\* the master is at the drain barrier; one worker, active with a pointer
\* that matched nothing, has ended the region and is at the barrier, another
\* was inactive and is there too
C36_Witness ==
  /\ \E m \in Lanes : pc[m] = "drain"
  /\ \E t \in Workers :
        /\ pc[t] = "barrier" /\ exec_status[t] /\ work_fn[t] \notin Work
        /\ work_fn[t] # 0 /\ invoked[t] = << >> /\ ended[t] = 1
  /\ \E t \in Workers :
        /\ pc[t] = "barrier" /\ ~exec_status[t] /\ work_fn[t] # 0
        /\ invoked[t] = << >> /\ ended[t] = 0

\* C37: every load and store of the parallelism-level array a lane makes
\* (level checks, increaseParallelismLevel, decreaseParallelismLevel) has an
\* index in [0, DS_Max_Worker_Threads), also for the master lane of a block
\* of more than DS_Max_Worker_Threads threads.
C37_LevelIndexInBounds ==
  \A a \in xTouched :
     /\ a.loc.object = "__openmp_nvptx_parallelism_levels"
     /\ a.loc.index \in 0..(DS_Max_Worker_Threads - 1)

\* active lanes of the warp with an index below l
ActiveBelow(l) == {a \in mMask : a < l}

\* every active lane of the warp is past initializeDataSharing's branch
MaskDone == \A l \in mMask : mPc[l] = "after_shared_data_init"

\* C38: for every active-lane mask and every active lane l of the warp,
\* warp_active_thread_id is the number of active lanes below l (also for
\* l = 0, where the shift amount is 32), so exactly one active lane, the
\* lowest one, is the warp's active master and initializes the root slot.
C38_LowestActiveLaneInitializes ==
  /\ \A l \in mMask :
       mPc[l] # "entry" => mActiveID[l] = Cardinality(ActiveBelow(l))
  /\ MaskDone =>
       /\ Len(mRootInit) = 1
       /\ ActiveBelow(mRootInit[1]) = {}

\* C39: generateCoalescedSchedule returns true exactly for a loop that is not
\* ordered and whose schedule kind is unknown, auto, or static with chunk
\* size one; it is never true for a loop for which requiresBarrier is true.
C39_CoalescedScheduleTable ==
  /\ qCoalesced # << >> =>
       (qCoalesced = <<TRUE>> <=>
          /\ qLoop.ordered = FALSE
          /\ \/ qLoop.schedule \in {"none", "OMPC_SCHEDULE_auto"}
             \/ (qLoop.schedule = "OMPC_SCHEDULE_static" /\ qLoop.ChunkSizeOne))
  /\ (qCoalesced # << >> /\ qBarrier = <<TRUE>>) => qCoalesced = <<FALSE>>

\* the second loop of a function is static with chunk size one: it got the
\* coalesced schedule and needs no barrier
C39_Witness ==
  /\ qDone = 1
  /\ qLoop.schedule = "OMPC_SCHEDULE_static"
  /\ qLoop.ChunkSizeOne
  /\ qCoalesced = <<TRUE>>
  /\ qBarrier = <<FALSE>>

\* the toolchains among the first n added that were added with kind K, in the
\* order of the calls
RECURSIVE AddedWithKind(_, _)
AddedWithKind(n, K) ==
  IF n = 0 THEN << >>
  ELSE IF OrderedOffloadingToolchains[n].second = K
       THEN Append(AddedWithKind(n - 1, K), OrderedOffloadingToolchains[n].first)
       ELSE AddedWithKind(n - 1, K)

\* C40: after any sequence of addOffloadDeviceToolChain calls, the loop over
\* getOffloadDeviceToolChains<K>() visits exactly the toolchains added with
\* kind K, each once and in the order they were added (none when none was
\* added), and getSingleOffloadDeviceToolChain<K>() returns null when there is
\* none and the single one when there is exactly one.
C40_RangeVisitsTheKindInOrder ==
  LET Added == AddedWithKind(Len(OrderedOffloadingToolchains), tKind)
  IN  /\ tPc = "loop" =>
           /\ Len(tVisited) <= Len(Added)
           /\ tVisited = SubSeq(Added, 1, Len(tVisited))
      /\ tPc = "end" => tVisited = Added
      /\ (tPc = "single" /\ Len(Added) = 0) => tSingle = <<nullptr>>
      /\ (tPc = "single" /\ Len(Added) = 1) => tSingle = <<Added[1]>>

\* three toolchains were added, two of them with kind OFK_OpenMP around one
\* with kind OFK_Cuda, and the loop over OFK_OpenMP has visited the two
C40_Witness ==
  /\ tPc = "end"
  /\ tKind = "OFK_OpenMP"
  /\ Len(OrderedOffloadingToolchains) = 3
  /\ OrderedOffloadingToolchains[2].second = "OFK_Cuda"
  /\ Len(tVisited) = 2

====
